---- MODULE Spec2Model ----
(***************************************************************************)
(* Model of the bi-directional sync engine:                                *)
(*   SheetsToHubSpotSync.executeSync  (services/sync/sheets-to-hubspot.ts) *)
(*   HubSpotToSheetsSync.executeSync  (services/sync/hubspot-to-sheets.ts) *)
(* One run of one orchestrator is a sequential process; `pc` is the        *)
(* position of the run inside executeSync.  Every awaited call to a        *)
(* collaborator (CRM client, spreadsheet client, prisma store) either      *)
(* succeeds or throws; the choice is nondeterministic.                     *)
(* Cell and property values are strings; a row is a tuple of cells.        *)
(***************************************************************************)
EXTENDS Integers, Sequences, FiniteSets, TLC

VARIABLES
  dir,          \* which orchestrator runs: "S2H" or "H2S"
  config,       \* the SyncConfig handed to executeSync
  pc,           \* position of the run inside executeSync
  sheet,        \* the spreadsheet: [headers, rows]
  crm,          \* the CRM: sequence of records [id, properties]
  syncJobs,     \* prisma.syncJob table: sequence, job id = index
  syncLogs,     \* prisma.syncLog table: sequence of entries
  syncStates,   \* prisma.sheetSyncState table: set of rows
  result,       \* the result object of the run
  sheetData,    \* local: what readSheet returned
  rowIndex,     \* local: 1-based index of the row in progress (code: rowIndex + 1)
  hubspotData,  \* local: S2H transformed properties / H2S fetched records
  existingRecord, \* local: S2H lookup result ("null" or a CRM record id)
  transformedData, \* local: H2S transformed rows
  caught,       \* local: message of the exception being handled
  thrown,       \* message of the error executeSync rejected with, or "none"
  calls,        \* history of collaborator calls
  queued,       \* local: H2S updateSheet's queued updates and appends, and counts
  args,         \* the arguments of the function under call (function specifications)
  retval,       \* what the function under call returned
  pending,      \* the upserts each concurrent run has still to issue
  queues,       \* the job queues: per queue name the last job id and the waiting jobs
  active        \* the jobs the queue workers are processing

vars == <<dir, config, pc, sheet, crm, syncJobs, syncLogs, syncStates, result,
          sheetData, rowIndex, hubspotData, existingRecord, transformedData,
          caught, thrown, calls, queued, args, retval, pending,
          queues, active>>

----------------------------------------------------------------------------
(* Bounds of the model *)

MaxRows == 2

MaxRecords == 2

----------------------------------------------------------------------------
(* Generic helpers *)

\* Array.prototype.indexOf, 0-based, -1 when absent
IndexOf(seq, x) ==
  IF \E i \in 1..Len(seq) : seq[i] = x
  THEN (CHOOSE i \in 1..Len(seq) : seq[i] = x /\ \A j \in 1..(i-1) : seq[j] # x) - 1
  ELSE -1

\* seq[i] with a 0-based index; "undefined" outside the array
At(seq, i) == IF i >= 0 /\ i < Len(seq) THEN seq[i + 1] ELSE "undefined"

\* String.prototype.trim on the strings of the model
Trim(s) == IF s = " " THEN "" ELSE s

\* Values that are not strings are written as strings of their own: undefined
\* and null as "undefined" and "null", the numbers 0 and 7, NaN and the boolean
\* false as below.  A cell read with UNFORMATTED_VALUE (client.ts 121) is a
\* string, a number or a boolean.
NumberZero == "number 0"

NumberSeven == "number 7"

NaN == "number NaN"

BooleanFalse == "boolean false"

\* JavaScript falsiness of a cell / property value
Falsy(v) == v \in {"", "undefined", "null", NumberZero, NaN, BooleanFalse}

\* String(value)
String(v) ==
  IF v = NumberZero THEN "0"
  ELSE IF v = NumberSeven THEN "7"
  ELSE IF v = NaN THEN "NaN"
  ELSE IF v = BooleanFalse THEN "false"
  ELSE v

\* String.prototype.toLowerCase on the strings of the model
ToLowerCase(s) ==
  IF s = "TRUE" THEN "true"
  ELSE IF s = "Jo" THEN "jo"
  ELSE IF s = "Yes" THEN "yes"
  ELSE IF s = "No" THEN "no"
  ELSE IF s = "Y" THEN "y"
  ELSE IF s = "N" THEN "n"
  ELSE IF s = "Alpha" THEN "alpha"
  ELSE s

\* str.replace(/[^0-9.-]/g, '') on the strings of the model: "0" and "7" are
\* the only ones that hold a digit, a dot or a minus sign
StripNonNumeric(s) == IF s \in {"0", "7"} THEN s ELSE ""

\* parseFloat on the strings StripNonNumeric leaves
ParseFloat(s) == IF s = "0" THEN NumberZero ELSE IF s = "7" THEN NumberSeven ELSE NaN

SeqsUpTo(S, n) == UNION { [1..k -> S] : k \in 0..n }

----------------------------------------------------------------------------
(* Sheet -> CRM configuration and data *)

\* fieldMappings of the Sheet->CRM config: email (required), name
S2HMappings ==
  << [sheetColumn |-> "email", columnIndex |-> 0, hubspotProperty |-> "email",
      transformType |-> "undefined", isRequired |-> TRUE],
     [sheetColumn |-> "name", columnIndex |-> 1, hubspotProperty |-> "name",
      transformType |-> "undefined", isRequired |-> FALSE] >>

S2HConfigs ==
  [ hubspotEntityType : {"contacts", "companies"},
    fieldMappings : {S2HMappings},
    identifierColumn : {"email", "name", "id"},
    updateExisting : BOOLEAN,
    createNew : BOOLEAN,
    skipInvalid : BOOLEAN ]

HeaderRows == { <<"email", "name">>, <<"name", "email">>, <<"email">> }

\* the data rows a sheet may hold (cells: email, name)
DataRows ==
  { <<"", "">>,      \* empty
    <<"", " ">>,     \* blank after trimming
    <<"", "Jo">>,    \* required email missing
    <<"a", "Jo">>,   \* matches the CRM record
    <<"b", "">> }    \* matches no CRM record

\* CRM record ids, in the order the CRM hands them out
RecordIds == <<"h1", "h2", "h3", "h4", "h5", "h6", "h7", "h8">>

\* the CRM at the start of a Sheet->CRM run: one record, email "a", name "Jo"
InitialCrm == << [id |-> "h1", properties |-> [email |-> "a", name |-> "Jo"]] >>

EmptyResult ==
  [success |-> FALSE, rowsProcessed |-> 0, recordsCreated |-> 0,
   recordsUpdated |-> 0, recordsSkipped |-> 0, errors |-> <<>>]

----------------------------------------------------------------------------
(* Pure functions of SheetsToHubSpotSync *)

\* validateHeaders looking at the first mapping only
MissingHeader_FirstOnly(headers, fieldMappings) ==
  IF fieldMappings # <<>> /\ IndexOf(headers, fieldMappings[1].sheetColumn) = -1
  THEN fieldMappings[1].sheetColumn
  ELSE "ok"

\* validateHeaders: the first mapped column absent from the header row, or "ok"
MissingHeader(headers, fieldMappings) ==
  LET bad == { i \in 1..Len(fieldMappings) :
                 IndexOf(headers, fieldMappings[i].sheetColumn) = -1 }
  IN IF bad = {} THEN "ok"
     ELSE fieldMappings[CHOOSE i \in bad : \A j \in bad : i <= j].sheetColumn

\* isEmptyRow looking at the first cell only
isEmptyRow_FirstCell(row) == row = <<>> \/ Falsy(row[1]) \/ Trim(String(row[1])) = ""

isEmptyRow(row) ==
  \A i \in 1..Len(row) : Falsy(row[i]) \/ Trim(String(row[i])) = ""

\* applyTransformation (lines 300-338) for no transformType, three of the
\* recognized types, and any unrecognized type
applyTransformation(value, transformType) ==
  IF Falsy(transformType) THEN value
  ELSE IF transformType = "STRING_TO_NUMBER"
  THEN LET n == ParseFloat(StripNonNumeric(String(value)))
       IN IF Falsy(n) THEN NumberZero ELSE n
  ELSE IF transformType = "BOOLEAN_TO_STRING"
  THEN IF ToLowerCase(String(value)) = "true" THEN "true" ELSE "false"
  ELSE IF transformType = "TRIM" THEN Trim(String(value))
  ELSE value

\* transformRowToHubSpot: property map holding only the non-empty cells
transformRowToHubSpot(row, fieldMappings) ==
  LET used == { i \in 1..Len(fieldMappings) :
                  LET v == At(row, fieldMappings[i].columnIndex)
                  IN v # "null" /\ v # "undefined" /\ v # "" }
      props == { fieldMappings[i].hubspotProperty : i \in used }
  IN [ p \in props |->
         LET i == CHOOSE k \in used :
                    /\ fieldMappings[k].hubspotProperty = p
                    /\ \A j \in used : fieldMappings[j].hubspotProperty = p => j <= k
         IN applyTransformation(At(row, fieldMappings[i].columnIndex),
                                fieldMappings[i].transformType) ]

\* data[property] of a property map
Prop(data, p) == IF p \in DOMAIN data THEN data[p] ELSE "undefined"

\* validateRequiredFields: the sheet columns of the required mappings whose
\* property is falsy in the transformed data
missingFields(data, fieldMappings) ==
  { fieldMappings[i].sheetColumn :
      i \in { k \in 1..Len(fieldMappings) :
                fieldMappings[k].isRequired
                /\ Falsy(Prop(data, fieldMappings[k].hubspotProperty)) } }

\* whether findHubSpotRecord issues a search call at all
SearchIssued(entityType, identifierProperty) ==
  entityType # "contacts" \/ identifierProperty = "email"

\* searchResults.results[0]: id of the first record whose property equals the
\* value, "null" when there is none
FirstMatch(records, property, value) ==
  LET hit == { i \in 1..Len(records) : Prop(records[i].properties, property) = value }
  IN IF hit = {} THEN "null" ELSE records[CHOOSE i \in hit : \A j \in hit : i <= j].id

----------------------------------------------------------------------------
(* The persistent store (prisma) *)

SpreadsheetId == "S"

NewJob == [status |-> "IN_PROGRESS", counters |-> <<>>, errorMessage |-> "none"]

\* prisma.syncJob.update of the job of this run (the last one created)
JobUpdate(jobs, data) ==
  [jobs EXCEPT ![Len(jobs)] =
     [status |-> data.status,
      counters |-> IF "counters" \in DOMAIN data THEN data.counters ELSE @.counters,
      errorMessage |-> IF data.errorMessage = "undefined" THEN @.errorMessage
                       ELSE data.errorMessage]]

\* an upsert that always inserts a new row
Upsert_InsertOnly(states, state) == states \cup {state}

\* prisma.sheetSyncState.upsert on the unique key (spreadsheetId, hubspotEntityId)
Upsert(states, state) ==
  { s \in states : ~(s.spreadsheetId = state.spreadsheetId
                     /\ s.hubspotEntityId = state.hubspotEntityId) } \cup {state}

\* logSyncOperation: the entry handed to prisma.syncLog.create
LogEntry(operation, entityId, status, message) ==
  [syncJobId |-> Len(syncJobs), operation |-> operation, entityId |-> entityId,
   status |-> status, message |-> message]

\* an entry of the call history: the call, the sheet row it was made for (0:
\* none), whether it succeeded, and the record id it returned or "null"
Call(op, row, ok, ret) == [op |-> op, row |-> row, ok |-> ok, ret |-> ret]

----------------------------------------------------------------------------
(* SheetsToHubSpotSync.executeSync *)

S2HLocals == <<sheetData, rowIndex, hubspotData, existingRecord, transformedData>>

\* code: rowNumber = rowIndex + 2 with a 0-based rowIndex
RowNumber == rowIndex + 1

CurrentRow == sheetData.rows[rowIndex]

\* the next iteration of the row loop, or the end of the loop
NextRow ==
  /\ rowIndex' = rowIndex + 1
  /\ pc' = IF rowIndex + 1 > Len(sheetData.rows) THEN "finish" ELSE "row"

\* the per-row catch block is entered with this message
RowThrow(message) ==
  /\ caught' = message
  /\ pc' = "rowCatch"

\* lines 70-76: prisma.syncJob.create
S2HCreateJob ==
  /\ dir = "S2H" /\ pc = "start"
  /\ \/ /\ syncJobs' = Append(syncJobs, NewJob)
        /\ pc' = "read"
        /\ UNCHANGED thrown
     \/ /\ pc' = "rejected"
        /\ thrown' = "db error"
        /\ UNCHANGED syncJobs
  /\ UNCHANGED <<queues, active, args, retval, pending, dir, config, sheet, crm, syncLogs, syncStates, result,
                 S2HLocals, caught, calls, queued>>

\* lines 79-92: readSheet, validateHeaders, identifier column index
S2HReadSheet ==
  /\ dir = "S2H" /\ pc = "read"
  /\ \/ /\ caught' = "sheet error"
        /\ pc' = "catch"
        /\ calls' = Append(calls, Call("readSheet", 0, FALSE, "null"))
        /\ UNCHANGED <<sheetData, rowIndex>>
     \/ /\ calls' = Append(calls, Call("readSheet", 0, TRUE, "null"))
        /\ sheetData' = sheet
        /\ IF MissingHeader(sheet.headers, config.fieldMappings) # "ok"
           THEN /\ caught' = "Column not found in sheet"
                /\ pc' = "catch"
                /\ UNCHANGED rowIndex
           ELSE IF IndexOf(sheet.headers, config.identifierColumn) = -1
           THEN /\ caught' = "Identifier column not found"
                /\ pc' = "catch"
                /\ UNCHANGED rowIndex
           ELSE /\ rowIndex' = 1
                /\ pc' = IF Len(sheet.rows) = 0 THEN "finish" ELSE "row"
                /\ UNCHANGED caught
  /\ UNCHANGED <<queues, active, args, retval, pending, dir, config, sheet, crm, syncJobs, syncLogs, syncStates, result,
                 hubspotData, existingRecord, transformedData, thrown, queued>>

\* lines 96-130: empty-row skip, transform, required-field validation
S2HRowBegin ==
  /\ dir = "S2H" /\ pc = "row"
  /\ LET row == CurrentRow
         data == transformRowToHubSpot(row, config.fieldMappings)
         missing == missingFields(data, config.fieldMappings)
     IN IF isEmptyRow(row)
        THEN /\ result' = [result EXCEPT !.recordsSkipped = @ + 1]
             /\ NextRow
             /\ UNCHANGED <<hubspotData, caught>>
        ELSE IF missing # {}
        THEN IF config.skipInvalid
             THEN /\ result' = [result EXCEPT
                                  !.recordsSkipped = @ + 1,
                                  !.errors = Append(@, [row |-> RowNumber, data |-> row,
                                                        error |-> "Missing required fields"])]
                  /\ NextRow
                  /\ hubspotData' = data
                  /\ UNCHANGED caught
             ELSE /\ RowThrow("Row: Missing required fields")
                  /\ hubspotData' = data
                  /\ UNCHANGED <<result, rowIndex>>
        ELSE /\ hubspotData' = data
             /\ pc' = "search"
             /\ UNCHANGED <<result, rowIndex, caught>>
  /\ UNCHANGED <<queues, active, args, retval, pending, dir, config, sheet, crm, syncJobs, syncLogs, syncStates,
                 sheetData, existingRecord, transformedData, thrown, calls, queued>>

\* the row is done without an exception: line 190, then the next iteration
RowDone(res) ==
  /\ result' = [res EXCEPT !.rowsProcessed = @ + 1]
  /\ NextRow

\* findHubSpotRecord (lines 364-420) as called at line 134: the id of the
\* record found, or "null".  A search call that throws is caught inside
\* findHubSpotRecord, which then returns null.
findHubSpotRecord(searchOk) ==
  IF SearchIssued(config.hubspotEntityType, config.identifierColumn) /\ searchOk
  THEN FirstMatch(crm, config.identifierColumn,
                  At(CurrentRow, IndexOf(sheetData.headers, config.identifierColumn)))
  ELSE "null"

\* the row's action with createNew not consulted
RowAction_IgnoresCreateNew(found, updateExisting, createNew) ==
  IF found
  THEN IF updateExisting THEN "update" ELSE "skip"
  ELSE "create"

\* lines 140-188: what is done with a valid row, given the lookup result
RowAction(found, updateExisting, createNew) ==
  IF found
  THEN IF updateExisting THEN "update" ELSE "skip"
  ELSE IF createNew THEN "create" ELSE "skip"

\* lines 132-140, 158-162, 185-187: lookup and the choice of the row's action
S2HSearch ==
  /\ dir = "S2H" /\ pc = "search"
  /\ \E searchOk \in BOOLEAN :
       LET found == findHubSpotRecord(searchOk)
           action == RowAction(found # "null", config.updateExisting, config.createNew)
       IN /\ existingRecord' = found
          /\ calls' = IF SearchIssued(config.hubspotEntityType, config.identifierColumn)
                      THEN Append(calls, Call("search", RowNumber, searchOk, found))
                      ELSE calls
          /\ IF action = "skip"
             THEN RowDone([result EXCEPT !.recordsSkipped = @ + 1])
             ELSE pc' = action /\ UNCHANGED <<result, rowIndex>>
  /\ UNCHANGED <<queues, active, args, retval, pending, dir, config, sheet, crm, syncJobs, syncLogs, syncStates,
                 sheetData, hubspotData, transformedData, caught, thrown, queued>>

\* the CRM after basicApi.update(recordId, {properties})
CrmUpdated(records, recordId, properties) ==
  [ i \in 1..Len(records) |->
      IF records[i].id = recordId
      THEN [records[i] EXCEPT !.properties =
              [ p \in DOMAIN @ \cup DOMAIN properties |->
                  IF p \in DOMAIN properties THEN properties[p] ELSE @[p] ]]
      ELSE records[i] ]

\* the id the CRM gives the record it creates
NewRecordId(records) == RecordIds[Len(records) + 1]

\* lines 142-148: updateHubSpotRecord
S2HUpdate ==
  /\ dir = "S2H" /\ pc = "update"
  /\ \/ /\ crm' = CrmUpdated(crm, existingRecord, hubspotData)
        /\ calls' = Append(calls, Call("update", RowNumber, TRUE, existingRecord))
        /\ result' = [result EXCEPT !.recordsUpdated = @ + 1]
        /\ pc' = "logUpdate"
        /\ UNCHANGED caught
     \/ /\ calls' = Append(calls, Call("update", RowNumber, FALSE, "null"))
        /\ RowThrow("crm error")
        /\ UNCHANGED <<crm, result>>
  /\ UNCHANGED <<queues, active, args, retval, pending, dir, config, sheet, syncJobs, syncLogs, syncStates,
                 S2HLocals, thrown, queued>>

\* lines 150-157 and 190: log the update
S2HLogUpdate ==
  /\ dir = "S2H" /\ pc = "logUpdate"
  /\ \/ /\ syncLogs' = Append(syncLogs, LogEntry("UPDATE", existingRecord, "SUCCESS", "undefined"))
        /\ RowDone(result)
        /\ UNCHANGED caught
     \/ /\ RowThrow("db error")
        /\ UNCHANGED <<syncLogs, result, rowIndex>>
  /\ UNCHANGED <<queues, active, args, retval, pending, dir, config, sheet, crm, syncJobs, syncStates,
                 sheetData, hubspotData, existingRecord, transformedData, thrown, calls, queued>>

\* lines 163-168: createHubSpotRecord
S2HCreate ==
  /\ dir = "S2H" /\ pc = "create"
  /\ \/ /\ crm' = Append(crm, [id |-> NewRecordId(crm), properties |-> hubspotData])
        /\ existingRecord' = NewRecordId(crm)
        /\ calls' = Append(calls, Call("create", RowNumber, TRUE, NewRecordId(crm)))
        /\ result' = [result EXCEPT !.recordsCreated = @ + 1]
        /\ pc' = "logCreate"
        /\ UNCHANGED caught
     \/ /\ calls' = Append(calls, Call("create", RowNumber, FALSE, "null"))
        /\ RowThrow("crm error")
        /\ UNCHANGED <<crm, result, existingRecord>>
  /\ UNCHANGED <<queues, active, args, retval, pending, dir, config, sheet, syncJobs, syncLogs, syncStates,
                 sheetData, rowIndex, hubspotData, transformedData, thrown, queued>>

\* lines 170-177: log the creation
S2HLogCreate ==
  /\ dir = "S2H" /\ pc = "logCreate"
  /\ \/ /\ syncLogs' = Append(syncLogs, LogEntry("CREATE", existingRecord, "SUCCESS", "undefined"))
        /\ pc' = "upsert"
        /\ UNCHANGED caught
     \/ /\ RowThrow("db error")
        /\ UNCHANGED syncLogs
  /\ UNCHANGED <<queues, active, args, retval, pending, dir, config, sheet, crm, syncJobs, syncStates, result,
                 S2HLocals, thrown, calls, queued>>

\* updateSyncState (lines 525-550): the state upserted for a created record
S2HSyncState(hubspotEntityId, sheetRowNumber) ==
  [spreadsheetId |-> SpreadsheetId, hubspotEntityId |-> hubspotEntityId,
   sheetRowNumber |-> sheetRowNumber, syncHash |-> <<>>]

\* lines 179-184 and 190: fingerprint upsert for the created record
S2HUpsert ==
  /\ dir = "S2H" /\ pc = "upsert"
  /\ \/ /\ syncStates' = Upsert(syncStates, S2HSyncState(existingRecord, RowNumber))
        /\ RowDone(result)
        /\ UNCHANGED caught
     \/ /\ RowThrow("db error")
        /\ UNCHANGED <<syncStates, result, rowIndex>>
  /\ UNCHANGED <<queues, active, args, retval, pending, dir, config, sheet, crm, syncJobs, syncLogs,
                 sheetData, hubspotData, existingRecord, transformedData, thrown, calls, queued>>

\* lines 192-209: the per-row catch block; its own log call is not guarded
S2HRowCatch ==
  /\ dir = "S2H" /\ pc = "rowCatch"
  /\ result' = [result EXCEPT
                  !.errors = Append(@, [row |-> RowNumber, data |-> CurrentRow,
                                        error |-> caught])]
  /\ \/ /\ syncLogs' = Append(syncLogs, LogEntry("SKIP", "", "ERROR", caught))
        /\ NextRow
        /\ UNCHANGED caught
     \/ /\ caught' = "db error"
        /\ pc' = "catch"
        /\ UNCHANGED <<syncLogs, rowIndex>>
  /\ UNCHANGED <<queues, active, args, retval, pending, dir, config, sheet, crm, syncJobs, syncStates,
                 sheetData, hubspotData, existingRecord, transformedData, thrown, calls, queued>>

\* the job data with the status not depending on the result
S2HJobData_AlwaysCompleted(res) ==
  [status |-> "COMPLETED",
   counters |-> [recordsProcessed |-> res.rowsProcessed,
                 recordsCreated |-> res.recordsCreated,
                 recordsUpdated |-> res.recordsUpdated,
                 recordsFailed |-> Len(res.errors)],
   errorMessage |-> IF Len(res.errors) > 0 THEN "records failed to sync"
                    ELSE "undefined"]

\* the data of the syncJob.update at lines 215-228
S2HJobData(res) ==
  [status |-> IF res.success THEN "COMPLETED" ELSE "FAILED",
   counters |-> [recordsProcessed |-> res.rowsProcessed,
                 recordsCreated |-> res.recordsCreated,
                 recordsUpdated |-> res.recordsUpdated,
                 recordsFailed |-> Len(res.errors)],
   errorMessage |-> IF Len(res.errors) > 0 THEN "records failed to sync"
                    ELSE "undefined"]

\* line 212
S2HSuccess(res) == Len(res.errors) = 0

\* lines 212-228 and 246: success flag, job update, return
S2HFinish ==
  /\ dir = "S2H" /\ pc = "finish"
  /\ result' = [result EXCEPT !.success = S2HSuccess(result)]
  /\ \/ /\ syncJobs' = JobUpdate(syncJobs, S2HJobData(result'))
        /\ pc' = "returned"
        /\ UNCHANGED caught
     \/ /\ caught' = "db error"
        /\ pc' = "catch"
        /\ UNCHANGED syncJobs
  /\ UNCHANGED <<queues, active, args, retval, pending, dir, config, sheet, crm, syncLogs, syncStates,
                 S2HLocals, thrown, calls, queued>>

\* the catch block's job data without the message
FailedJobData_NoMessage(message) == [status |-> "FAILED", errorMessage |-> "undefined"]

\* the data of the syncJob.update of a catch block (S2H 234-241, H2S 155-162)
FailedJobData(message) == [status |-> "FAILED", errorMessage |-> message]

\* lines 230-244: the outer catch block marks the job FAILED and rethrows
S2HCatch ==
  /\ dir = "S2H" /\ pc = "catch"
  /\ \/ /\ syncJobs' = JobUpdate(syncJobs, FailedJobData(caught))
        /\ thrown' = caught
     \/ /\ thrown' = "db error"
        /\ UNCHANGED syncJobs
  /\ pc' = "rejected"
  /\ UNCHANGED <<queues, active, args, retval, pending, dir, config, sheet, crm, syncLogs, syncStates, result,
                 S2HLocals, caught, calls, queued>>

S2HNext ==
  \/ S2HCreateJob \/ S2HReadSheet \/ S2HRowBegin \/ S2HSearch
  \/ S2HUpdate \/ S2HLogUpdate \/ S2HCreate \/ S2HLogCreate \/ S2HUpsert
  \/ S2HRowCatch \/ S2HFinish \/ S2HCatch

----------------------------------------------------------------------------
(* CRM -> Sheet configuration and data *)

H2SMappingLists ==
  { << [hubspotProperty |-> "email", sheetColumn |-> "email", columnIndex |-> 0],
       [hubspotProperty |-> "name", sheetColumn |-> "name", columnIndex |-> 1] >>,
    \* listed out of column order
    << [hubspotProperty |-> "name", sheetColumn |-> "name", columnIndex |-> 1],
       [hubspotProperty |-> "email", sheetColumn |-> "email", columnIndex |-> 0] >>,
    \* with a gap at column 1
    << [hubspotProperty |-> "email", sheetColumn |-> "email", columnIndex |-> 0],
       [hubspotProperty |-> "name", sheetColumn |-> "name", columnIndex |-> 2] >> }

H2SConfigs ==
  [ hubspotEntityType : {"contacts"},
    fieldMappings : H2SMappingLists,
    syncMode : {"overwrite", "append", "update"},
    keyColumn : {"email", "name", "undefined"} ]

\* the CRM records a CRM -> Sheet run may find: ids in order, email "", "a" or "c"
H2SCrms ==
  { [ i \in 1..Len(es) |->
        [id |-> RecordIds[i], properties |-> [email |-> es[i], name |-> "Jo"]] ] :
      es \in SeqsUpTo({"", "a", "c"}, MaxRecords) }

\* the sheets a CRM -> Sheet run may find: a sheet kept by hand (columns email,
\* name), a sheet in the layout overwriteSheet writes (HubSpot ID first), and a
\* sheet without the email column
H2SSheets ==
  [headers : {<<"email", "name">>},
   rows : SeqsUpTo({<<"a", "Jo">>, <<"b", "Jo">>, <<"", "Jo">>}, MaxRows)]
  \cup
  [headers : {<<"HubSpot ID", "email", "name">>},
   rows : SeqsUpTo({<<"h1", "a", "Jo">>, <<"h2", "b", "Jo">>, <<"h3", "", "Jo">>}, MaxRows)]
  \cup
  [headers : {<<"name">>}, rows : SeqsUpTo({<<"Jo">>}, MaxRows)]

EmptyH2SResult ==
  [success |-> FALSE, recordsProcessed |-> 0, recordsCreated |-> 0,
   recordsUpdated |-> 0, recordsSkipped |-> 0, errors |-> <<>>]

----------------------------------------------------------------------------
(* Pure functions of HubSpotToSheetsSync *)

\* Array.prototype.sort by columnIndex (stable), as prepareHeaders applies it
\* to the fieldMappings array itself
SortByColumnIndex(ms) ==
  LET rank(i) == Cardinality({ j \in 1..Len(ms) :
                     \/ ms[j].columnIndex < ms[i].columnIndex
                     \/ (ms[j].columnIndex = ms[i].columnIndex /\ j < i) })
  IN [ k \in 1..Len(ms) |-> ms[CHOOSE i \in 1..Len(ms) : rank(i) = k - 1] ]

\* prepareHeaders (lines 294-304): 'HubSpot ID', then the sorted column names
prepareHeaders(fieldMappings) ==
  <<"HubSpot ID">> \o [ k \in 1..Len(fieldMappings) |->
                          SortByColumnIndex(fieldMappings)[k].sheetColumn ]

Max(S) == CHOOSE x \in S : \A y \in S : y <= x

\* value || ''
OrEmpty(v) == IF Falsy(v) THEN "" ELSE v

\* transformData (lines 237-256) for one record: an array of fieldMappings.length
\* slots, each mapping's value stored at its columnIndex (a later mapping
\* overwrites an earlier one, a slot never stored is a hole), then the record id
\* put in front
transformRecord(record, fieldMappings) ==
  LET width == Max({Len(fieldMappings)} \cup
                   { fieldMappings[i].columnIndex + 1 : i \in 1..Len(fieldMappings) })
      at(c) == { i \in 1..Len(fieldMappings) : fieldMappings[i].columnIndex = c }
  IN <<record.id>> \o
     [ k \in 1..width |->
         IF at(k - 1) = {} THEN "undefined"
         ELSE OrEmpty(Prop(record.properties,
                           fieldMappings[Max(at(k - 1))].hubspotProperty)) ]

transformData(records, fieldMappings) ==
  [ i \in 1..Len(records) |-> transformRecord(records[i], fieldMappings) ]

\* calculateRowHash (client.ts 401-404): SHA-256 of the JSON text of the row,
\* taken as injective on rows
calculateRowHash(row) == <<"sha256", row>>

\* updateSheet lines 364-370: key -> row number of the last existing row with
\* that key; rows with a falsy key are left out
existingRecords(existingData, keyColumnIndex) ==
  LET keyed == { i \in 1..Len(existingData.rows) :
                   ~Falsy(At(existingData.rows[i], keyColumnIndex)) }
      keys == { At(existingData.rows[i], keyColumnIndex) : i \in keyed }
  IN [ k \in keys |->
         Max({ i \in keyed : At(existingData.rows[i], keyColumnIndex) = k }) + 1 ]

\* updateSheet line 377: the key of an incoming row
keyValue(row, keyColumnIndex) == At(row, keyColumnIndex + 1)

\* updateSheet lines 376-398: the queued updates and appends and the counts
RECURSIVE matchRows(_, _, _, _)
matchRows(newData, existing, keyColumnIndex, acc) ==
  IF newData = <<>> THEN acc
  ELSE LET row == Head(newData)
           key == keyValue(row, keyColumnIndex)
       IN matchRows(Tail(newData), existing, keyColumnIndex,
            IF Falsy(key)
            THEN [acc EXCEPT !.skipped = @ + 1]
            ELSE IF key \in DOMAIN existing
            THEN [acc EXCEPT !.updates = Append(@, [row |-> existing[key], values |-> row]),
                             !.updated = @ + 1]
            ELSE [acc EXCEPT !.appends = Append(@, row), !.created = @ + 1])

NoQueue == [updates |-> <<>>, appends |-> <<>>, updated |-> 0, created |-> 0, skipped |-> 0]

\* values written at column A of a row: they replace the cells they cover, a
\* hole leaves the cell as it is
Overlay(old, values) ==
  [ k \in 1..Max({Len(old), Len(values)}) |->
      IF k <= Len(values) /\ values[k] # "undefined" THEN values[k]
      ELSE IF k <= Len(old) THEN old[k] ELSE "" ]

\* the sheet after updateCells(updates)
RECURSIVE CellsUpdated(_, _)
CellsUpdated(rows, updates) ==
  IF updates = <<>> THEN rows
  ELSE CellsUpdated(
         [rows EXCEPT ![Head(updates).row - 1] = Overlay(@, Head(updates).values)],
         Tail(updates))

\* updateSyncState lines 420-426: the state of the index-th transformed row
H2SSyncState(data, index) ==
  [spreadsheetId |-> SpreadsheetId, hubspotEntityId |-> data[index][1],
   sheetRowNumber |-> index + 1, syncHash |-> calculateRowHash(data[index])]

----------------------------------------------------------------------------
(* HubSpotToSheetsSync.executeSync *)

\* the catch block at line 150 is entered with this message
H2SThrow(message) ==
  /\ caught' = message
  /\ pc' = "catch"

\* lines 63-69: prisma.syncJob.create
H2SCreateJob ==
  /\ dir = "H2S" /\ pc = "start"
  /\ \/ /\ syncJobs' = Append(syncJobs, NewJob)
        /\ pc' = "fetch"
        /\ UNCHANGED thrown
     \/ /\ pc' = "rejected"
        /\ thrown' = "db error"
        /\ UNCHANGED syncJobs
  /\ UNCHANGED <<queues, active, args, retval, pending, dir, config, sheet, crm, syncLogs, syncStates, result,
                 S2HLocals, caught, calls, queued>>

\* lines 72-76: fetchHubSpotData, all pages or an exception
H2SFetch ==
  /\ dir = "H2S" /\ pc = "fetch"
  /\ \/ /\ hubspotData' = crm
        /\ calls' = Append(calls, Call("getPage", 0, TRUE, "null"))
        /\ pc' = "read"
        /\ UNCHANGED caught
     \/ /\ calls' = Append(calls, Call("getPage", 0, FALSE, "null"))
        /\ H2SThrow("crm error")
        /\ UNCHANGED hubspotData
  /\ UNCHANGED <<queues, active, args, retval, pending, dir, config, sheet, crm, syncJobs, syncLogs, syncStates, result,
                 sheetData, rowIndex, existingRecord, transformedData, thrown, queued>>

\* lines 78-82: readSheet
H2SReadSheet ==
  /\ dir = "H2S" /\ pc = "read"
  /\ \/ /\ sheetData' = sheet
        /\ calls' = Append(calls, Call("readSheet", 0, TRUE, "null"))
        /\ pc' = "prepare"
        /\ UNCHANGED caught
     \/ /\ calls' = Append(calls, Call("readSheet", 0, FALSE, "null"))
        /\ H2SThrow("sheet error")
        /\ UNCHANGED sheetData
  /\ UNCHANGED <<queues, active, args, retval, pending, dir, config, sheet, crm, syncJobs, syncLogs, syncStates, result,
                 rowIndex, hubspotData, existingRecord, transformedData, thrown, queued>>

\* config.keyColumn || 'email' (line 120)
KeyColumn == IF config.keyColumn = "undefined" THEN "email" ELSE config.keyColumn

\* lines 84-94 and, in update mode, updateSheet lines 353-398: headers (which
\* sorts config.fieldMappings in place), transformed rows, the mode's switch,
\* and the matching of update mode
H2SPrepare ==
  /\ dir = "H2S" /\ pc = "prepare"
  /\ config' = [config EXCEPT !.fieldMappings = SortByColumnIndex(@)]
  /\ transformedData' = transformData(hubspotData, config'.fieldMappings)
  /\ IF config.syncMode = "overwrite"
     THEN pc' = "clear" /\ UNCHANGED <<queued, caught, result>>
     ELSE IF config.syncMode = "append"
     THEN pc' = "append" /\ UNCHANGED <<queued, caught, result>>
     ELSE LET keyColumnIndex == IndexOf(sheetData.headers, KeyColumn)
              q == matchRows(transformedData',
                             existingRecords(sheetData, keyColumnIndex),
                             keyColumnIndex, NoQueue)
          IN IF keyColumnIndex = -1
             THEN H2SThrow("Key column not found in sheet") /\ UNCHANGED <<queued, result>>
             ELSE /\ queued' = q
                  /\ UNCHANGED caught
                  /\ IF Len(q.updates) > 0
                     THEN pc' = "updateCells" /\ UNCHANGED result
                     ELSE IF Len(q.appends) > 0
                     THEN pc' = "append" /\ UNCHANGED result
                     ELSE /\ pc' = "jobUpdate"
                          /\ result' = [result EXCEPT
                               !.recordsUpdated = q.updated,
                               !.recordsCreated = q.created,
                               !.recordsSkipped = q.skipped,
                               !.recordsProcessed = Len(hubspotData),
                               !.success = TRUE]
  /\ UNCHANGED <<queues, active, args, retval, pending, dir, sheet, crm, syncJobs, syncLogs, syncStates,
                 sheetData, rowIndex, hubspotData, existingRecord, thrown, calls>>

\* overwriteSheet line 316: clearRange
H2SClear ==
  /\ dir = "H2S" /\ pc = "clear"
  /\ \/ /\ sheet' = [headers |-> <<>>, rows |-> <<>>]
        /\ calls' = Append(calls, Call("clearRange", 0, TRUE, "null"))
        /\ pc' = "write"
        /\ UNCHANGED caught
     \/ /\ calls' = Append(calls, Call("clearRange", 0, FALSE, "null"))
        /\ H2SThrow("sheet error")
        /\ UNCHANGED sheet
  /\ UNCHANGED <<queues, active, args, retval, pending, dir, config, crm, syncJobs, syncLogs, syncStates, result,
                 S2HLocals, thrown, queued>>

\* lines 102, 111, 122-124, 128-129: the counts of the mode, then
\* recordsProcessed and success
H2SCounted(res) ==
  [res EXCEPT
     !.recordsCreated = IF config.syncMode = "update" THEN queued.created
                        ELSE Len(transformedData),
     !.recordsUpdated = IF config.syncMode = "update" THEN queued.updated ELSE @,
     !.recordsSkipped = IF config.syncMode = "update" THEN queued.skipped ELSE @,
     !.recordsProcessed = Len(hubspotData),
     !.success = TRUE]

\* overwriteSheet lines 319-325: writeSheet of the headers and all rows
H2SWriteSheet ==
  /\ dir = "H2S" /\ pc = "write"
  /\ \/ /\ sheet' = [headers |-> prepareHeaders(config.fieldMappings),
                     rows |-> transformedData]
        /\ calls' = Append(calls, Call("writeSheet", 0, TRUE, "null"))
        /\ result' = H2SCounted(result)
        /\ pc' = "jobUpdate"
        /\ UNCHANGED caught
     \/ /\ calls' = Append(calls, Call("writeSheet", 0, FALSE, "null"))
        /\ H2SThrow("sheet error")
        /\ UNCHANGED <<sheet, result>>
  /\ UNCHANGED <<queues, active, args, retval, pending, dir, config, crm, syncJobs, syncLogs, syncStates,
                 S2HLocals, thrown, queued>>

\* updateSheet lines 401-403: updateCells of the queued updates
H2SUpdateCells ==
  /\ dir = "H2S" /\ pc = "updateCells"
  /\ \/ /\ sheet' = [sheet EXCEPT !.rows = CellsUpdated(@, queued.updates)]
        /\ calls' = Append(calls, Call("updateCells", 0, TRUE, "null"))
        /\ IF Len(queued.appends) > 0
           THEN pc' = "append" /\ UNCHANGED result
           ELSE pc' = "jobUpdate" /\ result' = H2SCounted(result)
        /\ UNCHANGED caught
     \/ /\ calls' = Append(calls, Call("updateCells", 0, FALSE, "null"))
        /\ H2SThrow("sheet error")
        /\ UNCHANGED <<sheet, result>>
  /\ UNCHANGED <<queues, active, args, retval, pending, dir, config, crm, syncJobs, syncLogs, syncStates,
                 S2HLocals, thrown, queued>>

\* appendToSheet: all rows in append mode (lines 105-111, 331-341), the queued
\* appends in update mode (lines 406-408)
H2SAppend ==
  /\ dir = "H2S" /\ pc = "append"
  /\ \/ /\ sheet' = [sheet EXCEPT !.rows =
                       @ \o (IF config.syncMode = "append" THEN transformedData
                             ELSE queued.appends)]
        /\ calls' = Append(calls, Call("appendToSheet", 0, TRUE, "null"))
        /\ result' = H2SCounted(result)
        /\ pc' = "jobUpdate"
        /\ UNCHANGED caught
     \/ /\ calls' = Append(calls, Call("appendToSheet", 0, FALSE, "null"))
        /\ H2SThrow("sheet error")
        /\ UNCHANGED <<sheet, result>>
  /\ UNCHANGED <<queues, active, args, retval, pending, dir, config, crm, syncJobs, syncLogs, syncStates,
                 S2HLocals, thrown, queued>>

\* the data of the syncJob.update at lines 132-142
H2SJobData(res) ==
  [status |-> "COMPLETED",
   counters |-> [recordsProcessed |-> res.recordsProcessed,
                 recordsCreated |-> res.recordsCreated,
                 recordsUpdated |-> res.recordsUpdated,
                 recordsFailed |-> Len(res.errors)],
   errorMessage |-> "undefined"]

\* lines 131-142: the job is marked COMPLETED
H2SJobUpdate ==
  /\ dir = "H2S" /\ pc = "jobUpdate"
  /\ \/ /\ syncJobs' = JobUpdate(syncJobs, H2SJobData(result))
        /\ rowIndex' = 1
        /\ pc' = IF Len(transformedData) = 0 THEN "returned" ELSE "syncState"
        /\ UNCHANGED caught
     \/ /\ H2SThrow("db error")
        /\ UNCHANGED <<syncJobs, rowIndex>>
  /\ UNCHANGED <<queues, active, args, retval, pending, dir, config, sheet, crm, syncLogs, syncStates, result,
                 sheetData, hubspotData, existingRecord, transformedData,
                 thrown, calls, queued>>

\* lines 144-148, updateSyncState lines 429-444: one upsert of the loop
H2SUpsert ==
  /\ dir = "H2S" /\ pc = "syncState"
  /\ \/ /\ syncStates' = Upsert(syncStates, H2SSyncState(transformedData, rowIndex))
        /\ rowIndex' = rowIndex + 1
        /\ pc' = IF rowIndex + 1 > Len(transformedData) THEN "returned" ELSE "syncState"
        /\ UNCHANGED caught
     \/ /\ H2SThrow("db error")
        /\ UNCHANGED <<syncStates, rowIndex>>
  /\ UNCHANGED <<queues, active, args, retval, pending, dir, config, sheet, crm, syncJobs, syncLogs, result,
                 sheetData, hubspotData, existingRecord, transformedData,
                 thrown, calls, queued>>

\* lines 150-165: the catch block records the error, marks the job FAILED and
\* the result is returned
H2SCatch ==
  /\ dir = "H2S" /\ pc = "catch"
  /\ result' = [result EXCEPT !.errors = Append(@, [record |-> "null", error |-> caught])]
  /\ \/ /\ syncJobs' = JobUpdate(syncJobs, FailedJobData(caught))
        /\ pc' = "returned"
        /\ UNCHANGED thrown
     \/ /\ thrown' = "db error"
        /\ pc' = "rejected"
        /\ UNCHANGED syncJobs
  /\ UNCHANGED <<queues, active, args, retval, pending, dir, config, sheet, crm, syncLogs, syncStates,
                 S2HLocals, caught, calls, queued>>

H2SNext ==
  \/ H2SCreateJob \/ H2SFetch \/ H2SReadSheet \/ H2SPrepare \/ H2SClear
  \/ H2SWriteSheet \/ H2SUpdateCells \/ H2SAppend \/ H2SJobUpdate \/ H2SUpsert
  \/ H2SCatch

----------------------------------------------------------------------------

S2HInit ==
  /\ dir = "S2H"
  /\ config \in S2HConfigs
  /\ sheet \in [headers : HeaderRows, rows : SeqsUpTo(DataRows, MaxRows)]
  /\ crm = InitialCrm
  /\ result = EmptyResult

H2SInit ==
  /\ dir = "H2S"
  /\ config \in H2SConfigs
  /\ sheet \in H2SSheets
  /\ crm \in H2SCrms
  /\ result = EmptyH2SResult

Init ==
  /\ (S2HInit \/ H2SInit)
  /\ pc = "start"
  /\ syncJobs = <<>>
  /\ syncLogs = <<>>
  /\ syncStates = {}
  /\ sheetData = [headers |-> <<>>, rows |-> <<>>]
  /\ rowIndex = 0
  /\ hubspotData = <<>>
  /\ existingRecord = "null"
  /\ transformedData = <<>>
  /\ caught = "none"
  /\ thrown = "none"
  /\ calls = <<>>
  /\ queued = NoQueue
  /\ args = <<>>
  /\ retval = "none"
  /\ pending = <<>>
  /\ queues = <<>>
  /\ active = {}

Next == S2HNext \/ H2SNext

Spec == Init /\ [][Next]_vars

----------------------------------------------------------------------------
(* executeSync of SheetsToHubSpotSync called twice on the same sheet *)

\* the mark the second call leaves in the history of calls
SecondCall == Call("executeSync", 0, TRUE, "null")

\* the caller calls executeSync again after the first call returned: a new
\* result object (lines 60-67) and new locals; the sheet, the CRM and the
\* store are as the first run left them
ExecuteSyncAgain ==
  /\ dir = "S2H" /\ pc = "returned"
  /\ \A k \in 1..Len(calls) : calls[k] # SecondCall
  /\ calls' = Append(calls, SecondCall)
  /\ pc' = "start"
  /\ result' = EmptyResult
  /\ sheetData' = [headers |-> <<>>, rows |-> <<>>]
  /\ rowIndex' = 0
  /\ hubspotData' = <<>>
  /\ existingRecord' = "null"
  /\ caught' = "none"
  /\ UNCHANGED <<queues, active, args, retval, pending, dir, config, sheet, crm, syncJobs, syncLogs,
                 syncStates, transformedData, thrown, queued>>

\* a Sheet -> CRM config that creates records
ResyncInit ==
  /\ dir = "S2H"
  /\ config \in { c \in S2HConfigs : c.createNew }
  /\ sheet \in [headers : HeaderRows, rows : SeqsUpTo(DataRows, MaxRows)]
  /\ crm = InitialCrm
  /\ result = EmptyResult
  /\ pc = "start"
  /\ syncJobs = <<>>
  /\ syncLogs = <<>>
  /\ syncStates = {}
  /\ sheetData = [headers |-> <<>>, rows |-> <<>>]
  /\ rowIndex = 0
  /\ hubspotData = <<>>
  /\ existingRecord = "null"
  /\ transformedData = <<>>
  /\ caught = "none"
  /\ thrown = "none"
  /\ calls = <<>>
  /\ queued = NoQueue
  /\ args = <<>>
  /\ retval = "none"
  /\ pending = <<>>
  /\ queues = <<>>
  /\ active = {}

ResyncNext == S2HNext \/ ExecuteSyncAgain

ResyncSpec == ResyncInit /\ [][ResyncNext]_vars

----------------------------------------------------------------------------
(* executeSync of HubSpotToSheetsSync called in overwrite mode, then in *)
(* update mode on the sheet the first call left *)

\* the caller calls executeSync again with the same config but for its
\* syncMode, now 'update': a new result object (lines 54-61) and new locals;
\* the sheet, the CRM and the store are as the first run left them
ExecuteSyncInUpdateMode ==
  /\ dir = "H2S" /\ pc = "returned"
  /\ \A k \in 1..Len(calls) : calls[k] # SecondCall
  /\ calls' = Append(calls, SecondCall)
  /\ config' = [config EXCEPT !.syncMode = "update"]
  /\ pc' = "start"
  /\ result' = EmptyH2SResult
  /\ sheetData' = [headers |-> <<>>, rows |-> <<>>]
  /\ rowIndex' = 0
  /\ hubspotData' = <<>>
  /\ transformedData' = <<>>
  /\ caught' = "none"
  /\ queued' = NoQueue
  /\ UNCHANGED <<queues, active, args, retval, pending, dir, sheet, crm, syncJobs, syncLogs,
                 syncStates, existingRecord, thrown>>

\* a CRM -> Sheet config in overwrite mode
RewriteInit ==
  /\ dir = "H2S"
  /\ config \in { c \in H2SConfigs : c.syncMode = "overwrite" }
  /\ sheet \in H2SSheets
  /\ crm \in H2SCrms
  /\ result = EmptyH2SResult
  /\ pc = "start"
  /\ syncJobs = <<>>
  /\ syncLogs = <<>>
  /\ syncStates = {}
  /\ sheetData = [headers |-> <<>>, rows |-> <<>>]
  /\ rowIndex = 0
  /\ hubspotData = <<>>
  /\ existingRecord = "null"
  /\ transformedData = <<>>
  /\ caught = "none"
  /\ thrown = "none"
  /\ calls = <<>>
  /\ queued = NoQueue
  /\ args = <<>>
  /\ retval = "none"
  /\ pending = <<>>
  /\ queues = <<>>
  /\ active = {}

RewriteNext == H2SNext \/ ExecuteSyncInUpdateMode

RewriteSpec == RewriteInit /\ [][RewriteNext]_vars

----------------------------------------------------------------------------
(* SheetsToHubSpotSync.detectChanges *)

\* the sheets detectChanges may read: rows that start with a CRM record id
DetectRows == { <<"h1", "a", "Jo">>, <<"h2", "b", "Jo">>, <<"h1", "c", "Jo">> }

\* the hashes a stored state may hold: '' (written by the Sheet -> CRM
\* updateSyncState) or the fingerprint of a row (written by CRM -> Sheet)
StoredHashes == { <<>>, calculateRowHash(<<"h1", "a", "Jo">>),
                  calculateRowHash(<<"h2", "b", "Jo">>) }

\* the contents of the state table: at most one state per record id
DetectStates ==
  LET one(id) == {{}} \cup
        { {[spreadsheetId |-> SpreadsheetId, hubspotEntityId |-> id,
            sheetRowNumber |-> r, syncHash |-> h]} :
            r \in 2..(MaxRows + 2), h \in StoredHashes }
  IN { a \cup b : a \in one("h1"), b \in one("h2") }

\* lines 570-573: the maps stateMap may be after the forEach; for a row number
\* held by several states the one set last (in findMany's order) stays
StateMaps(states) ==
  LET rowNumbers == { st.sheetRowNumber : st \in states }
  IN { m \in [rowNumbers -> { st.syncHash : st \in states }] :
         \A r \in rowNumbers :
           \E st \in states : st.sheetRowNumber = r /\ st.syncHash = m[r] }

\* lines 576-588: the changes pushed for the current rows
RECURSIVE RowChanges(_, _, _)
RowChanges(rows, index, stateMap) ==
  IF index > Len(rows) THEN <<>>
  ELSE LET rowNumber == index + 1
           currentHash == calculateRowHash(rows[index])
           absent == rowNumber \notin DOMAIN stateMap
           rest == RowChanges(rows, index + 1, stateMap)
       IN IF absent \/ (~absent /\ stateMap[rowNumber] = <<>>)
          THEN <<[row |-> rowNumber, type |-> "new"]>> \o rest
          ELSE IF stateMap[rowNumber] # currentHash
          THEN <<[row |-> rowNumber, type |-> "modified"]>> \o rest
          ELSE rest

\* lines 591-593: the orders in which the remaining row numbers may be pushed
Orderings(S) ==
  { q \in [1..Cardinality(S) -> S] : \A i, j \in DOMAIN q : i # j => q[i] # q[j] }

\* line 562: readSheet; a failure rejects detectChanges
DetectReadSheet ==
  /\ dir = "detect" /\ pc = "start"
  /\ \/ /\ sheetData' = sheet
        /\ calls' = Append(calls, Call("readSheet", 0, TRUE, "null"))
        /\ pc' = "findMany"
        /\ UNCHANGED thrown
     \/ /\ calls' = Append(calls, Call("readSheet", 0, FALSE, "null"))
        /\ thrown' = "sheet error"
        /\ pc' = "rejected"
        /\ UNCHANGED sheetData
  /\ UNCHANGED <<queues, active, args, retval, pending, dir, config, sheet, crm, syncJobs, syncLogs,
                 syncStates, result, rowIndex, hubspotData, existingRecord,
                 transformedData, caught, queued>>

\* lines 565-595: findMany, the state map, the scan of the current rows, the
\* deleted rows, and the return
DetectFindMany ==
  /\ dir = "detect" /\ pc = "findMany"
  /\ \/ \E stateMap \in StateMaps(syncStates) :
          LET remaining == { r \in DOMAIN stateMap : r - 1 > Len(sheetData.rows) }
          IN \E order \in Orderings(remaining) :
               /\ retval' = RowChanges(sheetData.rows, 1, stateMap) \o
                            [ k \in 1..Len(order) |-> [row |-> order[k], type |-> "deleted"] ]
               /\ pc' = "returned"
               /\ UNCHANGED thrown
     \/ /\ thrown' = "db error"
        /\ pc' = "rejected"
        /\ UNCHANGED retval
  /\ UNCHANGED <<queues, active, args, pending, dir, config, sheet, crm, syncJobs, syncLogs,
                 syncStates, result, sheetData, rowIndex, hubspotData, existingRecord,
                 transformedData, caught, calls, queued>>

DetectInit ==
  /\ dir = "detect"
  /\ pc = "start"
  /\ sheet \in [headers : {<<"HubSpot ID", "email", "name">>},
                rows : SeqsUpTo(DetectRows, MaxRows)]
  /\ syncStates \in DetectStates
  /\ config = "none"
  /\ crm = <<>>
  /\ syncJobs = <<>>
  /\ syncLogs = <<>>
  /\ result = "none"
  /\ sheetData = [headers |-> <<>>, rows |-> <<>>]
  /\ rowIndex = 0
  /\ hubspotData = <<>>
  /\ existingRecord = "null"
  /\ transformedData = <<>>
  /\ caught = "none"
  /\ thrown = "none"
  /\ calls = <<>>
  /\ queued = NoQueue
  /\ args = <<>>
  /\ retval = "none"
  /\ pending = <<>>
  /\ queues = <<>>
  /\ active = {}

DetectNext == DetectReadSheet \/ DetectFindMany

DetectSpec == DetectInit /\ [][DetectNext]_vars

----------------------------------------------------------------------------
(* updateSyncState of both orchestrators, run concurrently on one spreadsheet *)

\* number of runs that upsert fingerprint states at the same time
MaxRuns == 2

\* what a run has to upsert.  A CRM -> Sheet run upserts one state per
\* transformed row (hubspot-to-sheets.ts 420-444); a Sheet -> CRM run one state
\* per record it created, with the row number of the record's sheet row
\* (sheets-to-hubspot.ts 179-184)
RunInputs ==
  { [kind |-> "H2S", upserts |-> [ i \in 1..Len(data) |-> H2SSyncState(data, i) ]] :
      data \in { <<<<"h1", "a", "Jo">>>>,
                 <<<<"h1", "c", "Jo">>, <<"h2", "b", "Jo">>>>,
                 <<<<"h2", "b", "Jo">>, <<"h1", "a", "Jo">>>> } }
  \cup
  { [kind |-> "S2H", upserts |-> [ i \in 1..Len(ids) |-> S2HSyncState(ids[i], i + 1) ]] :
      ids \in { <<"h1">>, <<"h2", "h1">> } }

\* one prisma.sheetSyncState.upsert of a run.  It succeeds, or it throws: the
\* loop of the CRM -> Sheet updateSyncState then ends (the exception leaves it),
\* the row loop of Sheet -> CRM goes on with its later rows unless the log call
\* of its catch block throws too
RunUpsert(r) ==
  /\ dir = "upserts" /\ pending[r] # <<>>
  /\ LET state == Head(pending[r])
     IN \/ /\ syncStates' = Upsert(syncStates, state)
           /\ pending' = [pending EXCEPT ![r] = Tail(@)]
           /\ calls' = Append(calls, [op |-> "upsert", run |-> r, ok |-> TRUE,
                                      state |-> state])
        \/ /\ \/ pending' = [pending EXCEPT ![r] = <<>>]
              \/ args[r].kind = "S2H" /\ pending' = [pending EXCEPT ![r] = Tail(@)]
           /\ calls' = Append(calls, [op |-> "upsert", run |-> r, ok |-> FALSE,
                                      state |-> state])
           /\ UNCHANGED syncStates
  /\ UNCHANGED <<queues, active, args, retval, dir, config, pc, sheet, crm, syncJobs, syncLogs,
                 result, sheetData, rowIndex, hubspotData, existingRecord,
                 transformedData, caught, thrown, queued>>

UpsertInit ==
  /\ dir = "upserts"
  /\ args \in [1..MaxRuns -> RunInputs]
  /\ pending = [ r \in 1..MaxRuns |-> args[r].upserts ]
  /\ queues = <<>>
  /\ active = {}
  /\ syncStates = {}
  /\ pc = "start"
  /\ sheet = [headers |-> <<>>, rows |-> <<>>]
  /\ config = "none"
  /\ crm = <<>>
  /\ syncJobs = <<>>
  /\ syncLogs = <<>>
  /\ result = "none"
  /\ sheetData = [headers |-> <<>>, rows |-> <<>>]
  /\ rowIndex = 0
  /\ hubspotData = <<>>
  /\ existingRecord = "null"
  /\ transformedData = <<>>
  /\ caught = "none"
  /\ thrown = "none"
  /\ calls = <<>>
  /\ queued = NoQueue
  /\ retval = "none"

UpsertNext == \E r \in 1..MaxRuns : RunUpsert(r)

UpsertSpec == UpsertInit /\ [][UpsertNext]_vars

----------------------------------------------------------------------------
(* The row functions of SheetsToHubSpotSync, called on their own *)

\* widest row handed to the row functions
MaxWidth == 2

\* the cells of a row: strings (empty, blank, text, numerals), the number 0,
\* the boolean false, null, and undefined (a hole)
RowCells == {"", " ", "a", "0", "7", "TRUE", NumberZero, BooleanFalse, "null", "undefined"}

\* the mapping lists: column 0 mapped with or without a transform, required or
\* not, and column 1 required without a transform
RowMappings ==
  { << [sheetColumn |-> "email", columnIndex |-> 0, hubspotProperty |-> "email",
        transformType |-> t, isRequired |-> r],
       [sheetColumn |-> "name", columnIndex |-> 1, hubspotProperty |-> "name",
        transformType |-> "undefined", isRequired |-> TRUE] >> :
      t \in {"undefined", "STRING_TO_NUMBER", "BOOLEAN_TO_STRING", "TRIM", "ROT13"},
      r \in BOOLEAN }

\* isEmptyRow(row), line 101
CallIsEmptyRow ==
  /\ dir = "row" /\ pc = "start"
  /\ retval' = [fn |-> "isEmptyRow", value |-> isEmptyRow(args.row)]
  /\ pc' = "returned"
  /\ UNCHANGED <<queues, active, args, pending, dir, config, sheet, crm, syncJobs, syncLogs,
                 syncStates, result, sheetData, rowIndex, hubspotData,
                 existingRecord, transformedData, caught, thrown, calls, queued>>

\* transformRowToHubSpot then validateRequiredFields, lines 106-116
CallValidateRequiredFields ==
  /\ dir = "row" /\ pc = "start"
  /\ LET hubspotData_ == transformRowToHubSpot(args.row, args.fieldMappings)
     IN retval' = [fn |-> "validateRequiredFields", data |-> hubspotData_,
                   missingFields |-> missingFields(hubspotData_, args.fieldMappings)]
  /\ pc' = "returned"
  /\ UNCHANGED <<queues, active, args, pending, dir, config, sheet, crm, syncJobs, syncLogs,
                 syncStates, result, sheetData, rowIndex, hubspotData,
                 existingRecord, transformedData, caught, thrown, calls, queued>>

RowInit ==
  /\ dir = "row"
  /\ pc = "start"
  /\ args \in [row : SeqsUpTo(RowCells, MaxWidth), fieldMappings : RowMappings]
  /\ retval = "none"
  /\ sheet = [headers |-> <<>>, rows |-> <<>>]
  /\ syncStates = {}
  /\ config = "none"
  /\ crm = <<>>
  /\ syncJobs = <<>>
  /\ syncLogs = <<>>
  /\ result = "none"
  /\ sheetData = [headers |-> <<>>, rows |-> <<>>]
  /\ rowIndex = 0
  /\ hubspotData = <<>>
  /\ existingRecord = "null"
  /\ transformedData = <<>>
  /\ caught = "none"
  /\ thrown = "none"
  /\ calls = <<>>
  /\ queued = NoQueue
  /\ pending = <<>>
  /\ queues = <<>>
  /\ active = {}

RowNext == CallIsEmptyRow \/ CallValidateRequiredFields

RowSpec == RowInit /\ [][RowNext]_vars

----------------------------------------------------------------------------
(* DataTransformer (sheets-to-hubspot.ts 641-1097): values *)

\* The values handed to the transformer carry their JavaScript type.
JsString(s) == [type |-> "string", s |-> s]

JsNumber(n) == [type |-> "number", n |-> n]

JsNaN == [type |-> "number", nan |-> TRUE]

JsBoolean(b) == [type |-> "boolean", b |-> b]

JsUndefined == [type |-> "undefined"]

JsNull == [type |-> "null"]

\* !value
JsFalsy(v) ==
  v \in {JsUndefined, JsNull, JsNaN, JsNumber(0), JsBoolean(FALSE), JsString("")}

\* String(value)
JsToString(v) ==
  IF v.type = "string" THEN v.s
  ELSE IF v = JsNaN THEN "NaN"
  ELSE IF v.type = "number" THEN ToString(v.n)
  ELSE IF v.type = "boolean" THEN (IF v.b THEN "true" ELSE "false")
  ELSE v.type

\* String(n).padStart(2, '0')
Pad2(n) == IF n < 10 THEN "0" \o ToString(n) ELSE ToString(n)

\* Time values are counted in whole days since 1970-01-01 (one day is
\* 86 400 000 of the milliseconds getTime() counts); the local time zone is UTC.
\* Day number of a civil date: ECMAScript MakeDay for month m in 1..12
DaysFromCivil(y, m, d) ==
  LET yy == IF m <= 2 THEN y - 1 ELSE y
      era == yy \div 400
      yoe == yy - era * 400
      mp == IF m > 2 THEN m - 3 ELSE m + 9
      doy == (153 * mp + 2) \div 5 + d - 1
      doe == yoe * 365 + yoe \div 4 - yoe \div 100 + doy
  IN era * 146097 + doe - 719468

\* getFullYear(), getMonth() + 1 and getDate() of a time value
CivilFromDays(days) ==
  LET z == days + 719468
      era == z \div 146097
      doe == z - era * 146097
      yoe == (doe - doe \div 1460 + doe \div 36524 - doe \div 146096) \div 365
      doy == doe - (365 * yoe + yoe \div 4 - yoe \div 100)
      mp == (5 * doy + 2) \div 153
      m == IF mp < 10 THEN mp + 3 ELSE mp - 9
  IN [year |-> yoe + era * 400 + (IF m <= 2 THEN 1 ELSE 0),
      month |-> m,
      day |-> doy - (153 * mp + 2) \div 5 + 1]

\* The civil dates the strings of the model can denote
ModelDates ==
  {[year |-> 2024, month |-> 1, day |-> 15],
   [year |-> 1970, month |-> 1, day |-> 1],
   [year |-> 1970, month |-> 1, day |-> 2],
   [year |-> 1970, month |-> 2, day |-> 1]}

\* `${month}/${day}/${year}`
MonthDayYear(c) == Pad2(c.month) \o "/" \o Pad2(c.day) \o "/" \o ToString(c.year)

\* `${day}/${month}/${year}`
DayMonthYear(c) == Pad2(c.day) \o "/" \o Pad2(c.month) \o "/" \o ToString(c.year)

\* `${year}-${month}-${day}`
YearMonthDay(c) == ToString(c.year) \o "-" \o Pad2(c.month) \o "-" \o Pad2(c.day)

\* date.toLocaleDateString() in the en-US locale
LocaleDate(c) == ToString(c.month) \o "/" \o ToString(c.day) \o "/" \o ToString(c.year)

\* new Date(string).getTime(): the ISO date and the month/day/year forms are
\* parsed, a string that denotes no date in these forms gives an invalid date
DateParse(s) ==
  LET read == {c \in ModelDates :
                 s \in {MonthDayYear(c), LocaleDate(c), YearMonthDay(c)}}
  IN IF read = {} THEN JsNaN
     ELSE LET c == CHOOSE c \in read : TRUE
          IN JsNumber(DaysFromCivil(c.year, c.month, c.day))

\* new Date(value).getTime()
NewDate(value) ==
  IF value.type = "string" THEN DateParse(value.s)
  ELSE IF value.type = "number" THEN value
  ELSE IF value.type \in {"boolean", "null"} THEN JsNumber(0)
  ELSE JsNaN

\* new Date(year, monthIndex, day).getTime(): NaN when an argument is NaN,
\* years 0..99 are 1900-based, months and days outside their range carry over
NewDateFromParts(year, monthIndex, day) ==
  IF JsNaN \in {year, monthIndex, day} THEN JsNaN
  ELSE LET y == IF year.n >= 0 /\ year.n <= 99 THEN 1900 + year.n ELSE year.n
           ym == y + (monthIndex.n \div 12)
           mn == monthIndex.n % 12
       IN JsNumber(DaysFromCivil(ym, mn + 1, 1) + day.n - 1)

\* dateStr.split('/'): three parts for the slash-separated date forms, the
\* whole string otherwise (no other string of the model holds a slash)
SplitSlash(s) ==
  LET padded == {c \in ModelDates : s = MonthDayYear(c)}
      plain == {c \in ModelDates : s = LocaleDate(c)}
      swapped == {c \in ModelDates : s = DayMonthYear(c)}
  IN IF padded # {}
       THEN LET c == CHOOSE c \in padded : TRUE
            IN <<Pad2(c.month), Pad2(c.day), ToString(c.year)>>
     ELSE IF plain # {}
       THEN LET c == CHOOSE c \in plain : TRUE
            IN <<ToString(c.month), ToString(c.day), ToString(c.year)>>
     ELSE IF swapped # {}
       THEN LET c == CHOOSE c \in swapped : TRUE
            IN <<Pad2(c.day), Pad2(c.month), ToString(c.year)>>
     ELSE <<s>>

\* parseInt on the parts SplitSlash yields: the number a digit string
\* denotes, NaN for a string that does not start with a digit
ParseInt(s) ==
  LET read == {n \in (0..31) \cup {c.year : c \in ModelDates} :
                 s \in {ToString(n), Pad2(n)}}
  IN IF read = {} THEN JsNaN ELSE JsNumber(CHOOSE n \in read : TRUE)

----------------------------------------------------------------------------
(* DataTransformer (sheets-to-hubspot.ts 641-1097): the transformations *)

\* formatDate
formatDate(value, format) ==
  IF JsFalsy(value) THEN JsString("")
  ELSE LET date == NewDate(value)
       IN IF date = JsNaN THEN JsString(JsToString(value))
          ELSE LET c == CivilFromDays(date.n)
               IN JsString(CASE format = "MM/DD/YYYY" -> MonthDayYear(c)
                             [] format = "DD/MM/YYYY" -> DayMonthYear(c)
                             [] format = "YYYY-MM-DD" -> YearMonthDay(c)
                             [] OTHER -> LocaleDate(c))

\* parseDate: only a falsy value gives 0, every other value gives
\* date.getTime(), which is NaN for an invalid date
parseDate(value, format) ==
  IF JsFalsy(value) THEN JsNumber(0)
  ELSE LET dateStr == JsToString(value)
           parts == SplitSlash(dateStr)
       IN IF format = "MM/DD/YYYY" /\ Len(parts) = 3
            THEN LET month == ParseInt(parts[1])
                 IN NewDateFromParts(ParseInt(parts[3]),
                                     IF month = JsNaN THEN JsNaN
                                     ELSE JsNumber(month.n - 1),
                                     ParseInt(parts[2]))
          ELSE DateParse(dateStr)

\* booleanToText
booleanToText(value, cfg) ==
  LET isTrue == value \in {JsBoolean(TRUE), JsString("true"), JsNumber(1)}
  IN IF ~JsFalsy(cfg.trueValue) /\ ~JsFalsy(cfg.falseValue)
       THEN (IF isTrue THEN cfg.trueValue ELSE cfg.falseValue)
     ELSE JsString(IF isTrue THEN "Yes" ELSE "No")

\* textToBoolean
textToBoolean(value, cfg) ==
  IF ~JsFalsy(cfg.trueValue) THEN JsBoolean(value = cfg.trueValue)
  ELSE LET str == ToLowerCase(JsToString(value))
       IN JsBoolean(str \in {"yes", "true", "1"})

\* mapping[value] || value: the key is the value's string, an absent or
\* empty entry falls back to the value itself
Lookup(mapping, value) ==
  LET key == JsToString(value)
  IN IF key \in DOMAIN mapping /\ mapping[key] # ""
       THEN JsString(mapping[key])
     ELSE value

\* enumToText
enumToText(value, mapping) ==
  IF mapping = JsUndefined THEN JsString(JsToString(value))
  ELSE Lookup(mapping, value)

\* textToEnum
textToEnum(value, reverseMapping) ==
  IF reverseMapping = JsUndefined THEN JsString(JsToString(value))
  ELSE Lookup(reverseMapping, value)

\* config?.format || 'MM/DD/YYYY'
FormatOf(cfg) == IF JsFalsy(cfg.format) THEN "MM/DD/YYYY" ELSE cfg.format.s

\* A variant whose default branch returns String(value)
DataTransformer_applyTransformation_DefaultString(value, transformType, cfg) ==
  CASE transformType = "DATE_FORMAT" -> formatDate(value, FormatOf(cfg))
    [] transformType = "BOOLEAN_TO_TEXT" -> booleanToText(value, cfg)
    [] transformType = "ENUM_TO_TEXT" -> enumToText(value, cfg.mapping)
    [] transformType = "LOWERCASE" -> JsString(ToLowerCase(JsToString(value)))
    [] transformType = "TRIM" -> JsString(Trim(JsToString(value)))
    [] OTHER -> JsString(JsToString(value))

\* DataTransformer.applyTransformation
DataTransformer_applyTransformation(value, transformType, cfg) ==
  CASE transformType = "DATE_FORMAT" -> formatDate(value, FormatOf(cfg))
    [] transformType = "BOOLEAN_TO_TEXT" -> booleanToText(value, cfg)
    [] transformType = "ENUM_TO_TEXT" -> enumToText(value, cfg.mapping)
    [] transformType = "LOWERCASE" -> JsString(ToLowerCase(JsToString(value)))
    [] transformType = "TRIM" -> JsString(Trim(JsToString(value)))
    [] OTHER -> value

\* DataTransformer.applyReverseTransformation
applyReverseTransformation(value, transformType, cfg) ==
  CASE transformType = "DATE_FORMAT" -> parseDate(value, FormatOf(cfg))
    [] transformType = "BOOLEAN_TO_TEXT" -> textToBoolean(value, cfg)
    [] transformType = "ENUM_TO_TEXT" -> textToEnum(value, cfg.reverseMapping)
    [] transformType \in {"LOWERCASE", "TRIM"} -> value
    [] OTHER -> value

\* DataTransformer.validateTransformConfig(...).valid
validateTransformConfig(transformType, cfg) ==
  CASE transformType = "DATE_FORMAT" -> ~JsFalsy(cfg.format)
    [] transformType = "ENUM_TO_TEXT" -> cfg.mapping # JsUndefined
    [] OTHER -> TRUE

----------------------------------------------------------------------------
(* The transformer applied to one value *)

\* A transformConfig: every key the transformations read, undefined when absent
TransformConfig(format, trueValue, falseValue, mapping, reverseMapping) ==
  [format |-> format, trueValue |-> trueValue, falseValue |-> falseValue,
   mapping |-> mapping, reverseMapping |-> reverseMapping]

DTConfigs ==
  {TransformConfig(JsUndefined, JsUndefined, JsUndefined, JsUndefined, JsUndefined),
   TransformConfig(JsString("MM/DD/YYYY"), JsUndefined, JsUndefined, JsUndefined, JsUndefined),
   TransformConfig(JsString("DD/MM/YYYY"), JsUndefined, JsUndefined, JsUndefined, JsUndefined),
   TransformConfig(JsString("YYYY-MM-DD"), JsUndefined, JsUndefined, JsUndefined, JsUndefined),
   TransformConfig(JsString("short"), JsUndefined, JsUndefined, JsUndefined, JsUndefined),
   TransformConfig(JsUndefined, JsString("Y"), JsString("N"), JsUndefined, JsUndefined),
   TransformConfig(JsUndefined, JsString("Y"), JsUndefined, JsUndefined, JsUndefined),
   TransformConfig(JsUndefined, JsUndefined, JsUndefined, [a |-> "Alpha"], JsUndefined),
   TransformConfig(JsUndefined, JsUndefined, JsUndefined, [a |-> "Alpha"], [Alpha |-> "a"])}

\* Recognized types of the model and two types no branch names
DTTypes ==
  {"DATE_FORMAT", "BOOLEAN_TO_TEXT", "ENUM_TO_TEXT", "LOWERCASE", "TRIM",
   "ROT13", ""}

DTValues ==
  {JsString(s) : s \in {"", "abc", " a ", "2024-01-15", "01/15/2024",
                        "15/01/2024", "Yes", "No", "Y", "N", "true", "a",
                        "Alpha"}}
  \cup {JsNumber(0), JsNumber(1), JsNumber(DaysFromCivil(2024, 1, 15)), JsNaN,
        JsBoolean(TRUE), JsBoolean(FALSE), JsUndefined, JsNull}

TransformUnchanged ==
  UNCHANGED <<queues, active, args, pending, dir, config, sheet, crm, syncJobs, syncLogs,
              syncStates, result, sheetData, rowIndex, hubspotData,
              existingRecord, transformedData, caught, thrown, calls, queued>>

\* applyTransformation(value, transformType, config)
CallApplyTransformation ==
  /\ dir = "transform"
  /\ pc = "start"
  /\ pc' = "forward"
  /\ retval' = [forward |->
       DataTransformer_applyTransformation(args.value, args.transformType,
                                           args.config)]
  /\ TransformUnchanged

\* applyReverseTransformation(value, transformType, config) on a sheet cell;
\* a date cell is read as a string (client.ts 122) or is empty
CallApplyReverseTransformation ==
  /\ dir = "transform"
  /\ pc = "start"
  /\ args.transformType = "DATE_FORMAT" =>
       (args.value.type = "string" \/ JsFalsy(args.value))
  /\ pc' = "reverse"
  /\ retval' = [reverse |->
       applyReverseTransformation(args.value, args.transformType, args.config)]
  /\ TransformUnchanged

\* applyReverseTransformation on what applyTransformation returned
CallReverseOfForward ==
  /\ dir = "transform"
  /\ pc = "forward"
  /\ pc' = "roundtrip"
  /\ retval' = [forward |-> retval.forward,
                back |-> applyReverseTransformation(retval.forward,
                           args.transformType, args.config)]
  /\ TransformUnchanged

TransformInit ==
  /\ dir = "transform"
  /\ pc = "start"
  /\ args \in [value : DTValues, transformType : DTTypes, config : DTConfigs]
  /\ retval = "none"
  /\ sheet = [headers |-> <<>>, rows |-> <<>>]
  /\ syncStates = {}
  /\ config = "none"
  /\ crm = <<>>
  /\ syncJobs = <<>>
  /\ syncLogs = <<>>
  /\ result = "none"
  /\ sheetData = [headers |-> <<>>, rows |-> <<>>]
  /\ rowIndex = 0
  /\ hubspotData = <<>>
  /\ existingRecord = "null"
  /\ transformedData = <<>>
  /\ caught = "none"
  /\ thrown = "none"
  /\ calls = <<>>
  /\ queued = NoQueue
  /\ pending = <<>>
  /\ queues = <<>>
  /\ active = {}

TransformNext ==
  \/ CallApplyTransformation
  \/ CallApplyReverseTransformation
  \/ CallReverseOfForward

TransformSpec == TransformInit /\ [][TransformNext]_vars

----------------------------------------------------------------------------
(* The job queues and their workers (unnamed/part_004 380-742, the API      *)
(* routes of unnamed/part_005, scheduleSync of both orchestrators).  A      *)
(* queue hands out job ids from its own counter; a Worker constructed for a *)
(* queue name takes the waiting jobs of the queue of that name, whatever    *)
(* the name of the job.                                                     *)

\* the job ids of a queue the model goes up to
MaxJobs == 2

\* the concurrency option of the two sync workers
Concurrency == 3

SyncConfigIds == {"c1", "c2"}

\* new Queue('sheets-sync') of the API routes
ApiQueue == "sheets-sync"

\* new Queue('hubspot-to-sheets-sync') of HubSpotToSheetsSync
H2SQueue == "hubspot-to-sheets-sync"

\* new Queue('sheets-to-hubspot-sync') of SheetsToHubSpotSync
S2HQueue == "sheets-to-hubspot-sync"

\* the queues a sync Worker is constructed for
WorkerQueues == {H2SQueue, S2HQueue}

\* the orchestrator whose executeSync the worker of a queue calls
OrchestratorOf(q) ==
  IF q = H2SQueue THEN "HubSpotToSheetsSync" ELSE "SheetsToHubSpotSync"

\* new Queue(name)
NewQueue(name) == [name |-> name, id |-> 0, wait |-> <<>>, repeat |-> {}]

\* queue.add(name, data): the job gets the next id and waits
Add(q, name, data) ==
  [q EXCEPT !.id = @ + 1,
            !.wait = Append(@, [queueName |-> q.name, id |-> q.id + 1,
                                name |-> name, data |-> data])]

\* queue.add(name, data, {repeat}): the schedule is registered once
AddRepeat(q, name, data) ==
  [q EXCEPT !.repeat = @ \cup {[name |-> name, data |-> data]}]

\* the data of a sync job, reduced to the config id
JobData(configId) == [syncConfigId |-> configId]

\* triggerSync (part_005 272-366): one job for a single direction, two for a
\* bidirectional config, all added to the API routes' queue under the name of
\* the direction
TriggerSync(configId, direction) ==
  /\ dir = "queue"
  /\ queues[ApiQueue].id + (IF direction = "BIDIRECTIONAL" THEN 2 ELSE 1) <= MaxJobs
  /\ queues' =
       [queues EXCEPT ![ApiQueue] =
          IF direction = "HUBSPOT_TO_SHEETS"
          THEN Add(@, H2SQueue, JobData(configId))
          ELSE IF direction = "SHEETS_TO_HUBSPOT"
          THEN Add(@, S2HQueue, JobData(configId))
          ELSE Add(Add(@, H2SQueue, JobData(configId)), S2HQueue, JobData(configId))]
  /\ UNCHANGED <<active, args, retval, pending, dir, config, pc, sheet, crm,
                 syncJobs, syncLogs, syncStates, result, sheetData, rowIndex,
                 hubspotData, existingRecord, transformedData, caught, thrown,
                 calls, queued>>

\* createSyncConfig with a syncInterval (part_005 238-251): a repeating
\* 'schedule-sync' job on the API routes' queue
CreateSyncConfig(configId) ==
  /\ dir = "queue"
  /\ queues' = [queues EXCEPT ![ApiQueue] =
                  AddRepeat(@, "schedule-sync", JobData(configId))]
  /\ queues' # queues
  /\ UNCHANGED <<active, args, retval, pending, dir, config, pc, sheet, crm,
                 syncJobs, syncLogs, syncStates, result, sheetData, rowIndex,
                 hubspotData, existingRecord, transformedData, caught, thrown,
                 calls, queued>>

\* scheduleSync of an orchestrator (hubspot-to-sheets.ts 450-465,
\* sheets-to-hubspot.ts 601-616): a repeating job on the orchestrator's queue
ScheduleSync(q, configId) ==
  /\ dir = "queue"
  /\ q \in WorkerQueues
  /\ queues' = [queues EXCEPT ![q] =
                  AddRepeat(@, IF q = H2SQueue THEN "sync-hubspot-to-sheets"
                               ELSE "sync-sheets-to-hubspot",
                            JobData(configId))]
  /\ queues' # queues
  /\ UNCHANGED <<active, args, retval, pending, dir, config, pc, sheet, crm,
                 syncJobs, syncLogs, syncStates, result, sheetData, rowIndex,
                 hubspotData, existingRecord, transformedData, caught, thrown,
                 calls, queued>>

\* the interval of a repeat schedule has passed: its next job waits.  The
\* queue keeps one pending job per schedule; the next one is set up when a
\* worker takes the pending one, not when that job is finished.
RepeatDue(q, schedule) ==
  /\ dir = "queue"
  /\ schedule \in queues[q].repeat
  /\ queues[q].id < MaxJobs
  /\ \A k \in 1..Len(queues[q].wait) :
       ~(queues[q].wait[k].name = schedule.name
         /\ queues[q].wait[k].data = schedule.data)
  /\ queues' = [queues EXCEPT ![q] = Add(@, schedule.name, schedule.data)]
  /\ UNCHANGED <<active, args, retval, pending, dir, config, pc, sheet, crm,
                 syncJobs, syncLogs, syncStates, result, sheetData, rowIndex,
                 hubspotData, existingRecord, transformedData, caught, thrown,
                 calls, queued>>

\* a sync worker (part_004 395-459, 464-528) takes the next waiting job of
\* its queue while it processes fewer than `concurrency` jobs
WorkerTake(q) ==
  /\ dir = "queue"
  /\ q \in WorkerQueues
  /\ queues[q].wait # <<>>
  /\ Cardinality({ a \in active : a.queue = q }) < Concurrency
  /\ active' = active \cup
       {[queue |-> q, job |-> Head(queues[q].wait), phase |-> "account"]}
  /\ queues' = [queues EXCEPT ![q].wait = Tail(@)]
  /\ UNCHANGED <<args, retval, pending, dir, config, pc, sheet, crm,
                 syncJobs, syncLogs, syncStates, result, sheetData, rowIndex,
                 hubspotData, existingRecord, transformedData, caught, thrown,
                 calls, queued>>

\* part_004 402-426 / 471-495: the account lookup; without an access token
\* the job fails, with one the worker calls executeSync(config)
WorkerAccount(a) ==
  /\ dir = "queue"
  /\ a \in active /\ a.phase = "account"
  /\ \/ active' = (active \ {a}) \cup {[a EXCEPT !.phase = "executeSync"]}
     \/ active' = active \ {a}
  /\ UNCHANGED <<queues, args, retval, pending, dir, config, pc, sheet, crm,
                 syncJobs, syncLogs, syncStates, result, sheetData, rowIndex,
                 hubspotData, existingRecord, transformedData, caught, thrown,
                 calls, queued>>

\* part_004 426-447 / 495-516: executeSync returned or threw, the job is over
WorkerDone(a) ==
  /\ dir = "queue"
  /\ a \in active /\ a.phase = "executeSync"
  /\ active' = active \ {a}
  /\ UNCHANGED <<queues, args, retval, pending, dir, config, pc, sheet, crm,
                 syncJobs, syncLogs, syncStates, result, sheetData, rowIndex,
                 hubspotData, existingRecord, transformedData, caught, thrown,
                 calls, queued>>

QueueInit ==
  /\ dir = "queue"
  /\ queues = [q \in {ApiQueue} \cup WorkerQueues |-> NewQueue(q)]
  /\ active = {}
  /\ pc = "start"
  /\ config = "none"
  /\ sheet = [headers |-> <<>>, rows |-> <<>>]
  /\ crm = <<>>
  /\ syncJobs = <<>>
  /\ syncLogs = <<>>
  /\ syncStates = {}
  /\ result = "none"
  /\ sheetData = [headers |-> <<>>, rows |-> <<>>]
  /\ rowIndex = 0
  /\ hubspotData = <<>>
  /\ existingRecord = "null"
  /\ transformedData = <<>>
  /\ caught = "none"
  /\ thrown = "none"
  /\ calls = <<>>
  /\ queued = NoQueue
  /\ args = <<>>
  /\ retval = "none"
  /\ pending = <<>>

QueueNext ==
  \/ \E c \in SyncConfigIds,
        d \in {"HUBSPOT_TO_SHEETS", "SHEETS_TO_HUBSPOT", "BIDIRECTIONAL"} :
       TriggerSync(c, d)
  \/ \E c \in SyncConfigIds : CreateSyncConfig(c)
  \/ \E q \in WorkerQueues, c \in SyncConfigIds : ScheduleSync(q, c)
  \/ \E q \in {ApiQueue} \cup WorkerQueues : \E s \in queues[q].repeat : RepeatDue(q, s)
  \/ \E q \in WorkerQueues : WorkerTake(q)
  \/ \E a \in active : WorkerAccount(a)
  \/ \E a \in active : WorkerDone(a)

QueueSpec == QueueInit /\ [][QueueNext]_vars

\* the queue and the workers keep running: a worker that can take a job
\* does, and a job a worker has taken goes on
QueueLiveSpec ==
  /\ QueueSpec
  /\ \A q \in WorkerQueues : WF_vars(WorkerTake(q))
  /\ WF_vars(\E a \in active : WorkerAccount(a))
  /\ WF_vars(\E a \in active : WorkerDone(a))

----------------------------------------------------------------------------
(* Vocabulary of the properties, stated on the data and the histories *)

\* the SyncJob of the run
Job == syncJobs[Len(syncJobs)]

\* every cell of the row is the empty string or blank
RowBlank(row) == \A k \in 1..Len(row) : row[k] \in {"", " "}

\* the cell of some required mapping is the empty string
RowLacksRequired(row) ==
  \E m \in 1..Len(config.fieldMappings) :
    /\ config.fieldMappings[m].isRequired
    /\ row[config.fieldMappings[m].columnIndex + 1] = ""

\* the sheet rows (by index) the row loop has finished with
RowsDone == { i \in 1..Len(sheetData.rows) : i < rowIndex }

\* the calls of one kind made for a sheet row (by row number)
CallsFor(op, rowNumber) ==
  { k \in 1..Len(calls) : calls[k].op = op /\ calls[k].row = rowNumber }

ErrorsFor(rowNumber) ==
  { k \in 1..Len(result.errors) : result.errors[k].row = rowNumber }

\* some mapped column, or the identifier column, is not in the header row
HeaderMismatch ==
  \/ \E m \in 1..Len(config.fieldMappings) :
       \A h \in 1..Len(sheet.headers) : sheet.headers[h] # config.fieldMappings[m].sheetColumn
  \/ \A h \in 1..Len(sheet.headers) : sheet.headers[h] # config.identifierColumn

HeaderErrors == {"Column not found in sheet", "Identifier column not found"}

----------------------------------------------------------------------------
(* C1 *)

\* C1: an exception raised while a Sheet->CRM data row is processed is confined
\* to that row: the run does not abort because of it, so a run that has entered
\* the row loop rejects only after every row has been processed.
C1_RowExceptionConfined ==
  (dir = "S2H" /\ rowIndex >= 1 /\ pc = "rejected") => rowIndex > Len(sheetData.rows)

(* C2 *)

\* C2: with skipInvalid = false the first non-empty data row that lacks a
\* required field makes the run raise: the loop never goes past that row, no CRM
\* call is made for a later row, and the run does not return a result.
C2_StrictModeAborts ==
  (dir = "S2H" /\ ~config.skipInvalid) =>
    \A i \in 1..Len(sheetData.rows) :
      (i <= rowIndex /\ ~RowBlank(sheetData.rows[i]) /\ RowLacksRequired(sheetData.rows[i]))
        => /\ rowIndex <= i
           /\ pc # "returned"
           /\ \A k \in 1..Len(calls) : calls[k].row <= i + 1

(* C3 *)

\* what C3 says of the row in progress: one more skip, one more error carrying
\* the row number, no CRM call, and on to the next row
SkippedAsInvalid ==
  /\ result'.recordsSkipped = result.recordsSkipped + 1
  /\ Len(result'.errors) = Len(result.errors) + 1
  /\ result'.errors[Len(result'.errors)].row = RowNumber
  /\ calls' = calls
  /\ crm' = crm
  /\ rowIndex' = rowIndex + 1
  /\ pc' \in {"row", "finish"}

C4_SuccessIffNoErrors ==
  pc = "returned" => (result.success <=> Len(result.errors) = 0)

(* C5 *)

\* C5: a Sheet->CRM run that returns has set its SyncJob to COMPLETED exactly
\* when errors is empty and to FAILED otherwise, with the job's counters equal to
\* the result's; until the row loop is over the job stays IN_PROGRESS.
C5_JobMatchesResult ==
  dir = "S2H" =>
    /\ pc = "returned" =>
         /\ Job.status = IF Len(result.errors) = 0 THEN "COMPLETED" ELSE "FAILED"
         /\ Job.counters = [recordsProcessed |-> result.rowsProcessed,
                            recordsCreated |-> result.recordsCreated,
                            recordsUpdated |-> result.recordsUpdated,
                            recordsFailed |-> Len(result.errors)]
    /\ (Len(syncJobs) = 1 /\ pc \notin {"returned", "rejected"}) =>
         Job.status = "IN_PROGRESS"

C5_Witness ==
  /\ dir = "S2H" /\ pc = "returned"
  /\ Len(result.errors) = 1 /\ result.recordsCreated = 1
  /\ Job.status = "FAILED" /\ Job.counters.recordsFailed = 1

(* C6 *)

\* C6: a CRM->Sheet run has one SyncJob, created IN_PROGRESS before any CRM or
\* sheet call; a run that returns without an error has it COMPLETED, a run
\* that returns after a step threw has it FAILED with that exception's message,
\* which is also the one entry of errors; executeSync rejects only when the
\* store itself fails.
C6_OneJobBracketsRun ==
  dir = "H2S" =>
    /\ Len(syncJobs) <= 1
    /\ calls # <<>> => Len(syncJobs) = 1
    /\ pc \in {"fetch", "read", "prepare", "clear", "write", "updateCells",
               "append", "jobUpdate"} => Job.status = "IN_PROGRESS"
    /\ (pc = "returned" /\ Len(result.errors) = 0) => Job.status = "COMPLETED"
    /\ (pc = "returned" /\ Len(result.errors) > 0) =>
         /\ Job.status = "FAILED"
         /\ Len(result.errors) = 1
         /\ Job.errorMessage = result.errors[1].error
    /\ pc = "rejected" => thrown = "db error"

C6_Witness ==
  /\ dir = "H2S" /\ pc = "returned"
  /\ Job.status = "FAILED" /\ Job.errorMessage = "db error"
  /\ syncStates # {} /\ calls[Len(calls)].ok

(* C7 *)

\* C7: when a mapped column or the identifier column is absent from the header
\* row, the row loop never starts: no CRM call, no fingerprint upsert, no log and
\* no row error is made, the run never returns a result, and the header error
\* that reaches the caller is the errorMessage of the FAILED SyncJob.
C7_HeaderMismatchFailsFast ==
  (dir = "S2H" /\ HeaderMismatch) =>
    /\ rowIndex = 0
    /\ \A k \in 1..Len(calls) : calls[k].op = "readSheet"
    /\ crm = InitialCrm
    /\ syncStates = {}
    /\ syncLogs = <<>>
    /\ result.errors = <<>>
    /\ pc # "returned"
    /\ (pc = "catch" /\ calls[Len(calls)].ok) => caught \in HeaderErrors
    /\ (pc = "rejected" /\ thrown \in HeaderErrors) =>
         (Job.status = "FAILED" /\ Job.errorMessage = thrown)

C7_Witness ==
  /\ dir = "S2H" /\ HeaderMismatch /\ pc = "rejected"
  /\ thrown = "Column not found in sheet"
  /\ Job.status = "FAILED" /\ sheet.rows # <<>>

(* C8 *)

\* the lookup found a record for the row
Found(rowNumber) ==
  \E k \in CallsFor("search", rowNumber) : calls[k].ret # "null"

\* the CRM writes the row's lookup result and the flags call for
WritesDue(rowNumber) ==
  IF Found(rowNumber)
  THEN [update |-> IF config.updateExisting THEN 1 ELSE 0, create |-> 0]
  ELSE [update |-> 0, create |-> IF config.createNew THEN 1 ELSE 0]

C9_SearchFailureIsRowError ==
  dir = "S2H" =>
    \A k \in 1..Len(calls) :
      (calls[k].op = "search" /\ ~calls[k].ok) =>
        /\ CallsFor("create", calls[k].row) = {}
        /\ (calls[k].row - 1) \in RowsDone => ErrorsFor(calls[k].row) # {}

(* C10 *)

\* the mapping of the key column, and the key-column value of a CRM record
KeyMapping ==
  config.fieldMappings[CHOOSE m \in 1..Len(config.fieldMappings) :
                         config.fieldMappings[m].sheetColumn = KeyColumn]

IncomingKey(record) == OrEmpty(Prop(record.properties, KeyMapping.hubspotProperty))

\* the numbers of the existing sheet rows whose key-column cell holds the value
ExistingRowsWithKey(v) ==
  { i + 1 : i \in { j \in 1..Len(sheetData.rows) :
      \E h \in 1..Len(sheetData.headers) :
        sheetData.headers[h] = KeyColumn /\ sheetData.rows[j][h] = v } }

\* the sheet is in the layout overwrite mode writes for these mappings:
\* 'HubSpot ID', then the mapped columns, each at 1 + its columnIndex
OverwriteLayout ==
  /\ sheetData.headers = prepareHeaders(config.fieldMappings)
  /\ \A m \in 1..Len(config.fieldMappings) :
       At(sheetData.headers, config.fieldMappings[m].columnIndex + 1)
         = config.fieldMappings[m].sheetColumn

\* C10, for a sheet in the layout overwrite mode writes and incoming rows with a
\* non-empty key: in update mode every incoming row whose key-column value is
\* that of an existing sheet row is queued as an update at that row's number and
\* counted as updated, every other incoming row is queued as an append and
\* counted as created.
C10_UpdateModeMatchesByKey ==
  (dir = "H2S" /\ config.syncMode = "update"
   /\ pc \in {"updateCells", "append", "jobUpdate"} /\ OverwriteLayout) =>
    LET keyed == { k \in 1..Len(hubspotData) : IncomingKey(hubspotData[k]) # "" }
        matched == { k \in keyed : ExistingRowsWithKey(IncomingKey(hubspotData[k])) # {} }
    IN /\ \A k \in matched :
            \E u \in 1..Len(queued.updates) :
              /\ queued.updates[u].values = transformedData[k]
              /\ queued.updates[u].row \in ExistingRowsWithKey(IncomingKey(hubspotData[k]))
       /\ \A k \in keyed \ matched :
            \E a \in 1..Len(queued.appends) : queued.appends[a] = transformedData[k]
       /\ queued.updated = Cardinality(matched)

(* C11 *)

\* the transformed rows (by index) the run wrote to the sheet: all of them in
\* overwrite and append mode, the queued updates and appends in update mode
WrittenRows ==
  { k \in 1..Len(transformedData) :
      \/ config.syncMode # "update"
      \/ \E u \in 1..Len(queued.updates) : queued.updates[u].values = transformedData[k]
      \/ \E a \in 1..Len(queued.appends) : queued.appends[a] = transformedData[k] }

\* the stored states of a CRM record for the spreadsheet of the run
StatesOf(hubspotEntityId) ==
  { s \in syncStates : s.spreadsheetId = SpreadsheetId
                       /\ s.hubspotEntityId = hubspotEntityId }

\* C11: after a CRM->Sheet run that commits without an error, every row written
\* to the sheet has a state keyed by its record id whose hash is the row's
\* fingerprint, and a row that was not written (skipped in update mode) has no
\* state.
C11_StatesForWrittenRowsOnly ==
  (dir = "H2S" /\ pc = "returned" /\ Len(result.errors) = 0) =>
    \A k \in 1..Len(transformedData) :
      IF k \in WrittenRows
      THEN \E s \in StatesOf(transformedData[k][1]) :
             s.syncHash = calculateRowHash(transformedData[k])
      ELSE StatesOf(transformedData[k][1]) = {}

(* C15 *)

\* the row errors recorded by the per-row catch (the entry of a row skipped as
\* invalid belongs to its skip)
CaughtRowErrors ==
  { k \in 1..Len(result.errors) : result.errors[k].error # "Missing required fields" }

\* C15: a Sheet->CRM run that returns has appended one SyncLog entry for every
\* per-row decision: each create, each update, each skip (empty row, invalid row
\* under skipInvalid, found but not updateExisting, not found but not createNew)
\* and each row error.
C15_OneLogPerDecision ==
  (dir = "S2H" /\ pc = "returned") =>
    Len(syncLogs) = result.recordsCreated + result.recordsUpdated
                    + result.recordsSkipped + Cardinality(CaughtRowErrors)

(* C12 *)

\* the types detectChanges reported for a row number
ReportedAs(rowNumber) ==
  { retval[k].type : k \in { j \in 1..Len(retval) : retval[j].row = rowNumber } }

\* the stored states that carry a row number
StatesAt(rowNumber) == { st \in syncStates : st.sheetRowNumber = rowNumber }

\* C12: detectChanges classifies by row number: a current row without a stored
\* state is 'new', one whose stored state has another hash is 'modified', one
\* whose stored hash is its fingerprint is not reported, a stored row number
\* without a current row is 'deleted', and no row number is reported twice.
C12_ClassifiedByRowNumber ==
  (dir = "detect" /\ pc = "returned") =>
    /\ \A i \in 1..Len(sheetData.rows) :
         LET hash == calculateRowHash(sheetData.rows[i])
         IN /\ StatesAt(i + 1) = {} => ReportedAs(i + 1) = {"new"}
            /\ (StatesAt(i + 1) # {} /\ \A st \in StatesAt(i + 1) : st.syncHash # hash)
                 => ReportedAs(i + 1) = {"modified"}
            /\ (StatesAt(i + 1) # {} /\ \A st \in StatesAt(i + 1) : st.syncHash = hash)
                 => ReportedAs(i + 1) = {}
    /\ \A st \in syncStates :
         st.sheetRowNumber - 1 > Len(sheetData.rows)
           => ReportedAs(st.sheetRowNumber) = {"deleted"}
    /\ \A j, k \in 1..Len(retval) : retval[j].row = retval[k].row => j = k

(* C13 *)

\* C13: every stored state whose CRM record id is in no row of the current
\* sheet has its row reported as 'deleted'.
C13_MissingRecordIsDeleted ==
  (dir = "detect" /\ pc = "returned") =>
    \A st \in syncStates :
      (\A i \in 1..Len(sheetData.rows) : sheetData.rows[i][1] # st.hubspotEntityId)
        => "deleted" \in ReportedAs(st.sheetRowNumber)

(* C14 *)

\* the successful upserts (by position in the history) on the key of a state
UpsertsOn(hubspotEntityId) ==
  { k \in 1..Len(calls) : calls[k].ok /\ calls[k].state.hubspotEntityId = hubspotEntityId }

\* C14: whatever the interleaving of the runs' upserts, the store holds at most
\* one state per (spreadsheet id, CRM record id), and the state of a pair is the
\* one of the last upsert that succeeded on it.
C14_OneStatePerRecord ==
  dir = "upserts" =>
    \A id \in {"h1", "h2"} :
      IF UpsertsOn(id) = {}
      THEN StatesOf(id) = {}
      ELSE StatesOf(id) = { calls[Max(UpsertsOn(id))].state }

C14_Witness ==
  /\ dir = "upserts"
  /\ \A r \in 1..MaxRuns : pending[r] = <<>>
  /\ \E j, k \in UpsertsOn("h1") :
       /\ j < k /\ k = Max(UpsertsOn("h1"))
       /\ calls[j].run # calls[k].run
       /\ calls[j].state # calls[k].state
       /\ calls[j].state \notin syncStates
       /\ calls[k].state \in syncStates

(* C16 *)

\* the cell is null, undefined, or a string that is blank after trimming
BlankCell(cell) == cell \in {"null", "undefined", "", " "}

\* C16: isEmptyRow(row) is true exactly when every cell of the row is null,
\* undefined or a blank string, for rows of every width, the zero-length row
\* included; a row holding the number 0 or the boolean false is not empty.
C16_EmptyIffAllBlank ==
  (dir = "row" /\ pc = "returned" /\ retval.fn = "isEmptyRow") =>
    (retval.value <=> \A k \in 1..Len(args.row) : BlankCell(args.row[k]))

(* C20 *)

\* C20: a mapping's column is reported as missing exactly when the mapping is
\* required and the row's cell for it is empty (null, undefined or the empty
\* string); a required cell with any other value, the number 0 or a value whose
\* transform yields 0 included, is not reported.
C20_MissingIffRequiredCellEmpty ==
  (dir = "row" /\ pc = "returned" /\ retval.fn = "validateRequiredFields") =>
    \A m \in 1..Len(args.fieldMappings) :
      LET mapping == args.fieldMappings[m]
      IN (mapping.sheetColumn \in retval.missingFields)
           <=> (/\ mapping.isRequired
                /\ At(args.row, mapping.columnIndex) \in {"null", "undefined", ""})


----------------------------------------------------------------------------
(* C19 *)

\* The transform types a branch of the two switch statements names
RecognizedTypes ==
  {"DATE_FORMAT", "NUMBER_FORMAT", "CURRENCY_FORMAT", "BOOLEAN_TO_TEXT",
   "ENUM_TO_TEXT", "CONCATENATE", "SPLIT", "UPPERCASE", "LOWERCASE",
   "TITLE_CASE", "TRIM", "PHONE_FORMAT", "EMAIL_NORMALIZE", "JSON_TO_STRING",
   "ARRAY_TO_STRING", "CUSTOM_FUNCTION"}

\* C19: for a transformType that is not one of the recognized types, the
\* forward and the reverse transformation both return the value they were
\* given, whatever the value and the config (the default branches hold no
\* statement that can throw, so a return is the only outcome).
C19_UnknownTypeReturnsInput ==
  (dir = "transform" /\ args.transformType \notin RecognizedTypes) =>
    /\ pc = "forward" => retval.forward = args.value
    /\ pc = "reverse" => retval.reverse = args.value
    /\ pc = "roundtrip" =>
         (retval.forward = args.value /\ retval.back = args.value)

C19_Witness ==
  /\ dir = "transform"
  /\ pc = "roundtrip"
  /\ args.transformType = "ROT13"
  /\ args.value = JsBoolean(TRUE)
  /\ args.config.trueValue = JsString("Y")
  /\ retval.back = JsBoolean(TRUE)

----------------------------------------------------------------------------
(* C17 and C18 *)

\* The modelled transform types that have a defined reverse
ReversibleTypes == {"DATE_FORMAT", "BOOLEAN_TO_TEXT", "ENUM_TO_TEXT"}

\* A well-formed value of a transform type: a timestamp for a date, a
\* boolean for a boolean, a key of the mapping for an enum
WellFormed(value, transformType, cfg) ==
  CASE transformType = "DATE_FORMAT" -> value.type = "number" /\ value # JsNaN
    [] transformType = "BOOLEAN_TO_TEXT" -> value.type = "boolean"
    [] transformType = "ENUM_TO_TEXT" ->
         /\ value.type = "string"
         /\ cfg.mapping # JsUndefined
         /\ value.s \in DOMAIN cfg.mapping
    [] OTHER -> FALSE

\* C17: for a transform type with a defined reverse and a config accepted by
\* validateTransformConfig, the reverse transformation of the forward
\* transformation of a well-formed value is that value again.
C17_ReverseOfForwardIsIdentity ==
  ( /\ dir = "transform"
    /\ pc = "roundtrip"
    /\ args.transformType \in ReversibleTypes
    /\ validateTransformConfig(args.transformType, args.config)
    /\ WellFormed(args.value, args.transformType, args.config) )
  => retval.back = args.value

\* The non-empty strings of the model that denote no date in any form
UnparsableTexts == {"abc", " a ", "Yes", "No", "Y", "N", "true", "a", "Alpha"}

\* C18: DATE_FORMAT forward on a string that is not a valid date returns the
\* string unchanged, and DATE_FORMAT reverse on a non-empty string that
\* cannot be parsed as a date returns the number 0.
C18_DateFormatFailSoft ==
  ( /\ dir = "transform"
    /\ args.transformType = "DATE_FORMAT"
    /\ args.value.type = "string" )
  => /\ (pc = "forward" /\ NewDate(args.value) = JsNaN)
          => retval.forward = args.value
     /\ (pc = "reverse" /\ args.value.s \in UnparsableTexts)
          => retval.reverse = JsNumber(0)

----------------------------------------------------------------------------
(* C21 *)

\* A cell or property value of the orchestrator as a typed value
JsOf(v) ==
  IF v = NumberZero THEN JsNumber(0)
  ELSE IF v = NumberSeven THEN JsNumber(7)
  ELSE IF v = NaN THEN JsNaN
  ELSE IF v = BooleanFalse THEN JsBoolean(FALSE)
  ELSE IF v = "null" THEN JsNull
  ELSE IF v = "undefined" THEN JsUndefined
  ELSE JsString(v)

\* A mapping without a transformConfig
NoTransformConfig ==
  TransformConfig(JsUndefined, JsUndefined, JsUndefined, JsUndefined, JsUndefined)

\* C21: for every mapping with a recognized transform type and every
\* non-empty cell, the property value the Sheet->CRM orchestrator puts in the
\* CRM payload equals DataTransformer.applyReverseTransformation of that cell
\* for the same transform type.
C21_OrchestratorAgreesWithTransformer ==
  (dir = "row" /\ pc = "returned" /\ retval.fn = "validateRequiredFields") =>
    \A m \in 1..Len(args.fieldMappings) :
      LET mapping == args.fieldMappings[m]
          cell == At(args.row, mapping.columnIndex)
      IN (/\ mapping.transformType \in RecognizedTypes
          /\ cell \notin {"null", "undefined", ""})
         => JsOf(Prop(retval.data, mapping.hubspotProperty))
              = applyReverseTransformation(JsOf(cell), mapping.transformType,
                                           NoTransformConfig)

----------------------------------------------------------------------------
(* C22 *)

\* C22: a run treats its SyncConfig as read-only: no step of executeSync
\* changes the config it was given, the order of fieldMappings included.
C22_ConfigReadOnly == [][config' = config]_vars

----------------------------------------------------------------------------
(* C25 *)

TerminalStatuses == {"COMPLETED", "FAILED"}

\* C25: a SyncJob's terminal status is final: once the run has set its job to
\* COMPLETED or FAILED, no later step of the run changes the status.
C25_TerminalStatusFinal ==
  [][(syncJobs # <<>> /\ Job.status \in TerminalStatuses)
       => syncJobs'[Len(syncJobs)].status = Job.status]_vars

----------------------------------------------------------------------------
(* C24 *)

\* overwriteSheet has written the grid
GridWritten ==
  /\ dir = "H2S"
  /\ config.syncMode = "overwrite"
  /\ \E k \in 1..Len(calls) : calls[k].op = "writeSheet" /\ calls[k].ok

\* no two mappings share a column index
UniqueColumnIndices ==
  \A m, n \in 1..Len(config.fieldMappings) :
    config.fieldMappings[m].columnIndex = config.fieldMappings[n].columnIndex => m = n

\* the columns of the grid (0-based) that hold a mapping's header
HeaderColumns(mapping) ==
  { k \in 0..(Len(sheet.headers) - 1) : At(sheet.headers, k) = mapping.sheetColumn }

\* C24: in the grid overwrite mode writes for mappings with unique column
\* indices (gaps allowed), column 0 holds the CRM id, each mapping's value is
\* in the column of the header cell that holds its sheet column name, and a
\* data cell under no header is empty (the empty string or a cell left unset).
C24_HeaderAndDataAligned ==
  (GridWritten /\ UniqueColumnIndices) =>
    /\ At(sheet.headers, 0) = "HubSpot ID"
    /\ Len(sheet.rows) = Len(hubspotData)
    /\ \A r \in 1..Len(sheet.rows) :
         /\ At(sheet.rows[r], 0) = hubspotData[r].id
         /\ \A m \in 1..Len(config.fieldMappings) :
              LET mapping == config.fieldMappings[m]
              IN /\ HeaderColumns(mapping) # {}
                 /\ \A k \in HeaderColumns(mapping) :
                      At(sheet.rows[r], k)
                        = OrEmpty(Prop(hubspotData[r].properties, mapping.hubspotProperty))
         /\ \A k \in 1..(Len(sheet.rows[r]) - 1) :
              (\A m \in 1..Len(config.fieldMappings) :
                 k \notin HeaderColumns(config.fieldMappings[m]))
              => At(sheet.rows[r], k) \in {"", "undefined"}

----------------------------------------------------------------------------
(* C26 *)

\* the data rows isEmptyRow reports empty
EmptyRows == { i \in 1..Len(sheetData.rows) : isEmptyRow(sheetData.rows[i]) }

\* C26: when a Sheet->CRM run returns, rowsProcessed + (number of empty rows)
\* + errors.length = number of data rows, and recordsCreated + recordsUpdated
\* <= rowsProcessed: no row is counted both as created or updated and as an
\* error.
C26_CountersConsistent ==
  (dir = "S2H" /\ pc = "returned") =>
    /\ result.rowsProcessed + Cardinality(EmptyRows) + Len(result.errors)
         = Len(sheetData.rows)
    /\ result.recordsCreated + result.recordsUpdated <= result.rowsProcessed

----------------------------------------------------------------------------
(* C27 *)

\* the types detectChanges would report for a row number of the sheet as the
\* run left it, with the stored states as the run left them
WouldReport(rowNumber) ==
  UNION { { c[k].type : k \in { j \in 1..Len(c) : c[j].row = rowNumber } } :
            c \in { RowChanges(sheet.rows, 1, stateMap) :
                      stateMap \in StateMaps(syncStates) } }

\* C27: after a CRM->Sheet run that completes without an error, in any write
\* mode, each written record has a stored state whose row number is a row of
\* the sheet that holds the record and whose hash is the fingerprint of that
\* row, so detectChanges reports that row neither 'new' nor 'modified'.
C27_StatesMatchSheetAfterRun ==
  (dir = "H2S" /\ pc = "returned" /\ Len(result.errors) = 0) =>
    \A k \in WrittenRows :
      \E st \in StatesOf(transformedData[k][1]) :
        /\ st.sheetRowNumber - 1 \in 1..Len(sheet.rows)
        /\ At(sheet.rows[st.sheetRowNumber - 1], 0) = transformedData[k][1]
        /\ st.syncHash = calculateRowHash(sheet.rows[st.sheetRowNumber - 1])
        /\ WouldReport(st.sheetRowNumber) = {}

----------------------------------------------------------------------------
(* C28 *)

\* the position of the second call's mark in the history, 0 during the first run
SecondCallAt ==
  IF \E k \in 1..Len(calls) : calls[k] = SecondCall
  THEN CHOOSE k \in 1..Len(calls) : calls[k] = SecondCall
  ELSE 0

\* the calls (by position) that created a record for a sheet row
CreatesFor(rowNumber) ==
  { k \in 1..Len(calls) : calls[k].op = "create" /\ calls[k].ok
                          /\ calls[k].row = rowNumber }

\* every search the CRM was asked for succeeded
SearchSucceeds == \A k \in 1..Len(calls) : calls[k].op = "search" => calls[k].ok

\* C28: with createNew = true and a CRM whose search succeeds, for every
\* entity type and identifier column, the second of two runs over an
\* unchanged sheet creates no record for a row whose record the first run
\* created.
C28_NoSecondCreate ==
  (dir = "S2H" /\ config.createNew /\ SecondCallAt > 0 /\ SearchSucceeds) =>
    \A i \in 1..Len(sheet.rows) :
      (\E k \in CreatesFor(i + 1) : k < SecondCallAt)
        => ~(\E k \in CreatesFor(i + 1) : k > SecondCallAt)

----------------------------------------------------------------------------
(* C29 *)

\* the first call wrote the grid of overwrite mode
OverwriteDone ==
  \E k \in 1..Len(calls) :
    calls[k].op = "writeSheet" /\ calls[k].ok /\ k < SecondCallAt

\* C29: after an overwrite run has written the CRM records, an update-mode
\* run over the same records, keyed on a mapped column, that returns without
\* an error has matched every record to its existing row: recordsUpdated is
\* the number of records, recordsCreated is 0, and the sheet holds one row
\* per record.
C29_UpdateAfterOverwriteIsIdempotent ==
  (dir = "H2S" /\ SecondCallAt > 0 /\ OverwriteDone
   /\ pc = "returned" /\ Len(result.errors) = 0
   /\ \E m \in 1..Len(config.fieldMappings) :
        config.fieldMappings[m].sheetColumn = KeyColumn) =>
    /\ result.recordsUpdated = Len(crm)
    /\ result.recordsCreated = 0
    /\ Len(sheet.rows) = Len(crm)


\* the jobs for which a worker is inside executeSync
InExecuteSync == { a \in active : a.phase = "executeSync" }

\* C23: under the workers and the repeat schedules of the repository no two
\* executeSync invocations for the same syncConfigId are in progress at the
\* same time.
C23_RunsSerializedPerConfig ==
  dir = "queue" =>
    \A a, b \in InExecuteSync :
      a.job.data.syncConfigId = b.job.data.syncConfigId => a = b

\* the sync jobs that trigger-sync put on its queue and that still wait there
TriggeredWaiting(i) ==
  \E k \in 1..Len(queues[ApiQueue].wait) :
    /\ queues[ApiQueue].wait[k].id = i
    /\ queues[ApiQueue].wait[k].name \in WorkerQueues

\* a worker calls executeSync of the orchestrator of the job's direction for
\* job i of the trigger-sync queue
TriggeredExecuted(i) ==
  \E a \in InExecuteSync :
    /\ a.job.queueName = ApiQueue
    /\ a.job.id = i
    /\ a.queue = a.job.name

\* C30: every sync job trigger-sync enqueues is eventually taken by a worker
\* that calls executeSync of the orchestrator of the requested direction,
\* while the queue and the workers keep running.
C30_TriggeredJobEventuallyExecuted ==
  \A i \in 1..MaxJobs :
    (dir = "queue" /\ TriggeredWaiting(i)) ~> TriggeredExecuted(i)

====
